---- MODULE Spec2Model ----
(***************************************************************************)
(* Model of analysis-service/log_parser.py (the log condenser).            *)
(*                                                                         *)
(* A text is a sequence of one-character strings.  The regular             *)
(* expressions of the source are kept as syntax trees and are run by a     *)
(* backtracking matcher that returns the end positions of a match in the   *)
(* order Python's re module tries them, so search(), findall() and the     *)
(* captured groups are computed the way the source computes them.          *)
(***************************************************************************)
EXTENDS Integers, Sequences, FiniteSets, TLC

(***************************************************************************)
(* Characters.                                                             *)
(***************************************************************************)
LowerOf ==
  [c \in {"A","B","C","D","E","F","G","H","I","J","K","L","M",
          "N","O","P","Q","R","S","T","U","V","W","X","Y","Z"} |->
     CASE c = "A" -> "a" [] c = "B" -> "b" [] c = "C" -> "c" [] c = "D" -> "d"
       [] c = "E" -> "e" [] c = "F" -> "f" [] c = "G" -> "g" [] c = "H" -> "h"
       [] c = "I" -> "i" [] c = "J" -> "j" [] c = "K" -> "k" [] c = "L" -> "l"
       [] c = "M" -> "m" [] c = "N" -> "n" [] c = "O" -> "o" [] c = "P" -> "p"
       [] c = "Q" -> "q" [] c = "R" -> "r" [] c = "S" -> "s" [] c = "T" -> "t"
       [] c = "U" -> "u" [] c = "V" -> "v" [] c = "W" -> "w" [] c = "X" -> "x"
       [] c = "Y" -> "y" [] c = "Z" -> "z"]

UpperCase == DOMAIN LowerOf

\* re.IGNORECASE: both sides are compared in lower case
Fold(c) == IF c \in UpperCase THEN LowerOf[c] ELSE c

Digits == {"0","1","2","3","4","5","6","7","8","9"}
HighDigits == {"5","6","7","8","9"}
Letters == {"a","b","c","d","e","f","g","h","i","j","k","l","m",
            "n","o","p","q","r","s","t","u","v","w","x","y","z"}
\* \s of the re module, and the characters str.strip() removes
Whitespace == {" ", "\t", "\n", "\r", "\f"}
\* \w of the re module (on folded characters)
WordChars == Letters \cup Digits \cup {"_"}
\* the line boundaries of str.splitlines()
LineBreaks == {"\n", "\r", "\f"}

(***************************************************************************)
(* Regular expressions as syntax trees.                                    *)
(***************************************************************************)
Lit(str)      == [op |-> "lit", s |-> str]          \* a literal, case-folded
In(set)       == [op |-> "in", c |-> set]           \* one character of a class
NotIn(set)    == [op |-> "notin", c |-> set]        \* one character outside it
Rep(cls, n)   == [op |-> "rep", c |-> cls, min |-> n, greedy |-> TRUE]
RepLazy(cls, n) == [op |-> "rep", c |-> cls, min |-> n, greedy |-> FALSE]
Cat(rs)       == [op |-> "cat", rs |-> rs]
Alt(rs)       == [op |-> "alt", rs |-> rs]
Opt(r)        == [op |-> "alt", rs |-> <<r, [op |-> "cat", rs |-> <<>>]>>]
Bol           == [op |-> "bol"]                     \* ^
Eol           == [op |-> "eol"]                     \* $
WordB         == [op |-> "wb"]                      \* \b
NotAhead(r)   == [op |-> "nla", r |-> r]            \* (?!r)

Dot    == NotIn({"\n"})          \* .   (no DOTALL anywhere in the source)
Sp     == In(Whitespace)         \* \s
Dg     == In(Digits)             \* \d
Sp0    == Rep(Sp, 0)             \* \s*
Sp1    == Rep(Sp, 1)             \* \s+
Dg1    == Rep(Dg, 1)             \* \d+
Dg2    == Rep(Dg, 2)             \* \d{2,}
Any0   == Rep(Dot, 0)            \* .*
AnyLz0 == RepLazy(Dot, 0)        \* .*?

InClass(cls, c) ==
  IF cls.op = "in" THEN Fold(c) \in cls.c ELSE Fold(c) \notin cls.c

\* first position at or after i whose character is outside cls (Len(s)+1 if none)
RunEnd(cls, s, i) ==
  IF i > Len(s) \/ ~InClass(cls, s[i]) THEN i
  ELSE LET bad == {k \in (i + 1)..Len(s) : ~InClass(cls, s[k])}
       IN  IF bad = {} THEN Len(s) + 1
           ELSE CHOOSE k \in bad : \A j \in bad : k <= j

IsWord(s, i) == i >= 1 /\ i <= Len(s) /\ Fold(s[i]) \in WordChars

RECURSIVE Ends(_, _, _, _)
RECURSIVE CatEnds(_, _, _, _, _)
RECURSIVE AltEnds(_, _, _, _, _)
RECURSIVE Flat(_, _, _, _, _, _, _)

\* The end positions (index of the next character) of the matches of r that
\* start at position i of s, in the order a backtracking matcher tries them;
\* ml is re.MULTILINE.
Ends(r, s, i, ml) ==
  CASE r.op = "lit" ->
         IF i + Len(r.s) - 1 <= Len(s)
            /\ \A k \in 1..Len(r.s) : Fold(s[i + k - 1]) = r.s[k]
         THEN <<i + Len(r.s)>> ELSE <<>>
    [] r.op \in {"in", "notin"} ->
         IF i <= Len(s) /\ InClass(r, s[i]) THEN <<i + 1>> ELSE <<>>
    [] r.op = "rep" ->
         LET e == RunEnd(r.c, s, i)
             n == e - i - r.min + 1
         IN  IF n <= 0 THEN <<>>
             ELSE IF r.greedy THEN [k \in 1..n |-> e - k + 1]
                  ELSE [k \in 1..n |-> i + r.min + k - 1]
    [] r.op = "cat" -> CatEnds(r.rs, 1, s, i, ml)
    [] r.op = "alt" -> AltEnds(r.rs, 1, s, i, ml)
    [] r.op = "bol" ->
         IF i = 1 \/ (ml /\ s[i - 1] = "\n") THEN <<i>> ELSE <<>>
    [] r.op = "eol" ->
         IF i = Len(s) + 1 \/ (i = Len(s) /\ s[i] = "\n")
            \/ (ml /\ i <= Len(s) /\ s[i] = "\n")
         THEN <<i>> ELSE <<>>
    [] r.op = "wb" ->
         IF IsWord(s, i - 1) # IsWord(s, i) THEN <<i>> ELSE <<>>
    [] r.op = "nla" ->
         IF Ends(r.r, s, i, ml) = <<>> THEN <<i>> ELSE <<>>

\* x can only start with a character outside the class cls
StartsOutside(x, cls) ==
  /\ cls.op = "in"
  /\ \/ x.op = "in" /\ x.c \cap cls.c = {}
     \/ x.op = "rep" /\ x.min >= 1 /\ x.c.op = "in" /\ x.c.c \cap cls.c = {}
     \/ x.op = "lit" /\ x.s[1] \notin cls.c

\* The end positions of rs[k] worth trying before rs[k+1]: when rs[k] repeats a
\* class and rs[k+1] cannot start inside that class, every end but the end of
\* the run fails at once, so only that one is kept.
HeadEnds(rs, k, s, i, ml) ==
  IF rs[k].op = "rep" /\ k < Len(rs) /\ StartsOutside(rs[k + 1], rs[k].c)
  THEN LET e == RunEnd(rs[k].c, s, i)
       IN  IF e - i >= rs[k].min THEN <<e>> ELSE <<>>
  ELSE Ends(rs[k], s, i, ml)

CatEnds(rs, k, s, i, ml) ==
  IF k > Len(rs) THEN <<i>>
  ELSE LET heads == HeadEnds(rs, k, s, i, ml)
       IN  Flat(heads, 1, Len(heads), rs, k + 1, s, ml)

\* for each end position heads[lo..hi] of the head, in order, the end positions
\* of the rest (split in halves to keep the recursion shallow)
Flat(heads, lo, hi, rs, k, s, ml) ==
  IF lo > hi THEN <<>>
  ELSE IF lo = hi THEN CatEnds(rs, k, s, heads[lo], ml)
  ELSE LET mid == (lo + hi) \div 2
       IN  Flat(heads, lo, mid, rs, k, s, ml) \o Flat(heads, mid + 1, hi, rs, k, s, ml)

AltEnds(rs, k, s, i, ml) ==
  IF k > Len(rs) THEN <<>>
  ELSE Ends(rs[k], s, i, ml) \o AltEnds(rs, k + 1, s, i, ml)

\* for every start position i of s, the end positions of r from i
EndTable(r, s, ml) == [i \in 1..(Len(s) + 1) |-> Ends(r, s, i, ml)]

SetMin(S) == CHOOSE k \in S : \A j \in S : k <= j

RECURSIVE NextMatches(_, _)
\* the matches <<start, end>> found scanning on from position pos: the leftmost
\* start that matches, with the end the matcher prefers, then on from that end
NextMatches(table, pos) ==
  LET cand == {i \in pos..Len(table) : table[i] # <<>>}
  IN  IF cand = {} THEN <<>>
      ELSE <<<<SetMin(cand), table[SetMin(cand)][1]>>>>
           \o NextMatches(table, IF table[SetMin(cand)][1] > SetMin(cand)
                                  THEN table[SetMin(cand)][1] ELSE SetMin(cand) + 1)

\* pattern.finditer(s): the non-overlapping matches, leftmost first
FindIter(r, s, ml) == NextMatches(EndTable(r, s, ml), 1)

\* pattern.search(s) is not None
Search(r, s) == \E i \in 1..(Len(s) + 1) : Ends(r, s, i, FALSE) # <<>>

(***************************************************************************)
(* The patterns of log_parser.py.  All are used with re.IGNORECASE, so     *)
(* their literals are written in lower case and compared through Fold.     *)
(***************************************************************************)
\* player\s+passes\s+priority
IGNORE_PRIORITY == Cat(<<Lit(<<"p","l","a","y","e","r">>), Sp1, Lit(<<"p","a","s","s","e","s">>), Sp1, Lit(<<"p","r","i","o","r","i","t","y">>)>>)
\* untap\s+step
IGNORE_UNTAP == Cat(<<Lit(<<"u","n","t","a","p">>), Sp1, Lit(<<"s","t","e","p">>)>>)
\* draw\s+step
IGNORE_DRAW_STEP == Cat(<<Lit(<<"d","r","a","w">>), Sp1, Lit(<<"s","t","e","p">>)>>)
\* ^Turn\s+\d+:\s*$
IGNORE_BARE_TURN == Cat(<<Bol, Lit(<<"t","u","r","n">>), Sp1, Dg1, Lit(<<":">>), Sp0, Eol>>)

\* The list in source order; hasDraw is `"draw" in pat.pattern.lower()`.
IGNORE_PATTERNS ==
  << [re |-> IGNORE_PRIORITY,  hasDraw |-> FALSE],
     [re |-> IGNORE_UNTAP,     hasDraw |-> FALSE],
     [re |-> IGNORE_DRAW_STEP, hasDraw |-> TRUE],
     [re |-> IGNORE_BARE_TURN, hasDraw |-> FALSE] >>

\* draw(s)?\s+(an?\s+)?(additional|extra|\d+)\s+card|draw\s+\d+\s+card
EXTRA_DRAW_PATTERN ==
  Alt(<< Cat(<<Lit(<<"d","r","a","w">>), Opt(Lit(<<"s">>)), Sp1, Opt(Cat(<<Lit(<<"a">>), Opt(Lit(<<"n">>)), Sp1>>)),
               Alt(<<Lit(<<"a","d","d","i","t","i","o","n","a","l">>), Lit(<<"e","x","t","r","a">>), Dg1>>), Sp1, Lit(<<"c","a","r","d">>)>>),
         Cat(<<Lit(<<"d","r","a","w">>), Sp1, Dg1, Sp1, Lit(<<"c","a","r","d">>)>>) >>)

\* life\s+(total\s+)?(change|loss|gain|to)|(\d+)\s+life|loses?\s+\d+\s+life
\*   |gains?\s+\d+\s+life
LIFE_CHANGE ==
  Alt(<< Cat(<<Lit(<<"l","i","f","e">>), Sp1, Opt(Cat(<<Lit(<<"t","o","t","a","l">>), Sp1>>)),
               Alt(<<Lit(<<"c","h","a","n","g","e">>), Lit(<<"l","o","s","s">>), Lit(<<"g","a","i","n">>), Lit(<<"t","o">>)>>)>>),
         Cat(<<Dg1, Sp1, Lit(<<"l","i","f","e">>)>>),
         Cat(<<Lit(<<"l","o","s","e">>), Opt(Lit(<<"s">>)), Sp1, Dg1, Sp1, Lit(<<"l","i","f","e">>)>>),
         Cat(<<Lit(<<"g","a","i","n">>), Opt(Lit(<<"s">>)), Sp1, Dg1, Sp1, Lit(<<"l","i","f","e">>)>>) >>)

\* ([5-9]|\d{2,})
HighNumber == Alt(<<In(HighDigits), Dg2>>)

\* cast(s|ing)?\s+.*?(?:\(?\s*CMC\s*([5-9]|\d{2,})|\(([5-9]|\d{2,})\s*\))
\*   |CMC\s*([5-9]|\d{2,})
SPELL_CAST_HIGH_CMC ==
  Alt(<< Cat(<<Lit(<<"c","a","s","t">>), Opt(Alt(<<Lit(<<"s">>), Lit(<<"i","n","g">>)>>)), Sp1, AnyLz0,
               Alt(<< Cat(<<Opt(Lit(<<"(">>)), Sp0, Lit(<<"c","m","c">>), Sp0, HighNumber>>),
                      Cat(<<Lit(<<"(">>), HighNumber, Sp0, Lit(<<")">>)>>) >>)>>),
         Cat(<<Lit(<<"c","m","c">>), Sp0, HighNumber>>) >>)

\* cast.*\s+\((\d+)\)          (line 78, re.I)
CAST_PAREN_NUMBER == Cat(<<Lit(<<"c","a","s","t">>), Any0, Sp1, Lit(<<"(">>), Dg1, Lit(<<")">>)>>)
\* \((\d+)\)                   (line 80)
PAREN_NUMBER == Cat(<<Lit(<<"(">>), Dg1, Lit(<<")">>)>>)
\* \bcasts?\s+                 (line 90, re.I)
CAST_VERB == Cat(<<WordB, Lit(<<"c","a","s","t">>), Opt(Lit(<<"s">>)), Sp1>>)

\* graveyard\s*->\s*battlefield|graveyard\s+to\s+battlefield
\*   |put.*from.*graveyard.*onto.*battlefield
ZONE_CHANGE ==
  Alt(<< Cat(<<Lit(<<"g","r","a","v","e","y","a","r","d">>), Sp0, Lit(<<"-",">">>), Sp0, Lit(<<"b","a","t","t","l","e","f","i","e","l","d">>)>>),
         Cat(<<Lit(<<"g","r","a","v","e","y","a","r","d">>), Sp1, Lit(<<"t","o">>), Sp1, Lit(<<"b","a","t","t","l","e","f","i","e","l","d">>)>>),
         Cat(<<Lit(<<"p","u","t">>), Any0, Lit(<<"f","r","o","m">>), Any0, Lit(<<"g","r","a","v","e","y","a","r","d">>), Any0, Lit(<<"o","n","t","o">>), Any0,
               Lit(<<"b","a","t","t","l","e","f","i","e","l","d">>)>>) >>)

\* wins?\s+the\s+game|game\s+over|winner|wins\s+the\s+match
WIN_CONDITION ==
  Alt(<< Cat(<<Lit(<<"w","i","n">>), Opt(Lit(<<"s">>)), Sp1, Lit(<<"t","h","e">>), Sp1, Lit(<<"g","a","m","e">>)>>),
         Cat(<<Lit(<<"g","a","m","e">>), Sp1, Lit(<<"o","v","e","r">>)>>),
         Lit(<<"w","i","n","n","e","r">>),
         Cat(<<Lit(<<"w","i","n","s">>), Sp1, Lit(<<"t","h","e">>), Sp1, Lit(<<"m","a","t","c","h">>)>>) >>)

\* ^Turn\s+(\d+)               (re.IGNORECASE | re.MULTILINE)
TURN_LINE == Cat(<<Bol, Lit(<<"t","u","r","n">>), Sp1, Dg1>>)

\* (?:adds?|produces?|tap(s|ped)?\s+for)\s+[\w\s]*mana|(\d+)\s+mana\s+produced
MANA_PRODUCED ==
  Alt(<< Cat(<<Alt(<< Cat(<<Lit(<<"a","d","d">>), Opt(Lit(<<"s">>))>>),
                      Cat(<<Lit(<<"p","r","o","d","u","c","e">>), Opt(Lit(<<"s">>))>>),
                      Cat(<<Lit(<<"t","a","p">>), Opt(Alt(<<Lit(<<"s">>), Lit(<<"p","e","d">>)>>)), Sp1, Lit(<<"f","o","r">>)>>) >>),
               Sp1, Rep(In(WordChars \cup Whitespace), 0), Lit(<<"m","a","n","a">>)>>),
         Cat(<<Dg1, Sp1, Lit(<<"m","a","n","a">>), Sp1, Lit(<<"p","r","o","d","u","c","e","d">>)>>) >>)

\* tap(s|ped)?\s+.*?\s+for     (line 111, re.I)
TAP_FOR == Cat(<<Lit(<<"t","a","p">>), Opt(Alt(<<Lit(<<"s">>), Lit(<<"p","e","d">>)>>)), Sp1, AnyLz0, Sp1, Lit(<<"f","o","r">>)>>)

\* draws?\s+(\d+)\s+cards?     (line 126, re.IGNORECASE)
DRAW_NUMBER == Cat(<<Lit(<<"d","r","a","w">>), Opt(Lit(<<"s">>)), Sp1, Dg1, Sp1, Lit(<<"c","a","r","d">>), Opt(Lit(<<"s">>))>>)

\* draws?\s+(?:a\s+)?card(?!s) (line 129, re.IGNORECASE)
DRAW_SINGLE ==
  Cat(<<Lit(<<"d","r","a","w">>), Opt(Lit(<<"s">>)), Sp1, Opt(Cat(<<Lit(<<"a">>), Sp1>>)), Lit(<<"c","a","r","d">>), NotAhead(Lit(<<"s">>))>>)

(***************************************************************************)
(* Python built-ins used by the source.                                    *)
(***************************************************************************)
\* sys.int_info.default_max_str_digits: int() of a longer digit string raises
\* ValueError
INT_MAX_STR_DIGITS == 4300

None == "None"

RECURSIVE rstrip_end(_, _)
\* the index of the last character of s[1..k] that is no whitespace, 0 if none
rstrip_end(s, k) ==
  IF k = 0 \/ s[k] \notin Whitespace THEN k ELSE rstrip_end(s, k - 1)

\* s[a..b], empty when b < a
between(s, a, b) == IF b < a THEN <<>> ELSE SubSeq(s, a, b)

\* str.strip()
strip(s) == between(s, RunEnd(Sp, s, 1), rstrip_end(s, Len(s)))

\* str.splitlines(): "\r\n" is one boundary, and a boundary at the very end
\* opens no further line
RECURSIVE splitlines(_)
splitlines(s) ==
  IF s = <<>> THEN <<>>
  ELSE LET e == RunEnd(NotIn(LineBreaks), s, 1)
           n == IF e <= Len(s) /\ s[e] = "\r" /\ e + 1 <= Len(s) /\ s[e + 1] = "\n"
                THEN e + 2 ELSE e + 1
       IN  <<SubSeq(s, 1, e - 1)>> \o splitlines(SubSeq(s, n, Len(s)))

\* int(digits), for a string of decimal digits within the length int() accepts
RECURSIVE int(_)
int(ds) ==
  IF ds = <<>> THEN 0
  ELSE 10 * int(SubSeq(ds, 1, Len(ds) - 1))
       + (CHOOSE d \in 0..9 : <<"0","1","2","3","4","5","6","7","8","9">>[d + 1] = ds[Len(ds)])

\* int(digits) raises ValueError
int_raises(ds) == Len(ds) > INT_MAX_STR_DIGITS

(***************************************************************************)
(* _should_ignore and _classify_line.                                      *)
(***************************************************************************)
RECURSIVE ignore_from_no_exception(_, _)
\* faulty variant of ignore_from: a matching pattern always ignores the line
ignore_from_no_exception(stripped, k) ==
  IF k > Len(IGNORE_PATTERNS) THEN FALSE
  ELSE IF Search(IGNORE_PATTERNS[k].re, stripped) THEN TRUE
  ELSE ignore_from_no_exception(stripped, k + 1)

RECURSIVE ignore_from(_, _)
\* the for loop of _should_ignore from pattern k on: the first pattern that
\* matches decides
ignore_from(stripped, k) ==
  IF k > Len(IGNORE_PATTERNS) THEN FALSE
  ELSE IF Search(IGNORE_PATTERNS[k].re, stripped)
       THEN ~(IGNORE_PATTERNS[k].hasDraw /\ Search(EXTRA_DRAW_PATTERN, stripped))
       ELSE ignore_from(stripped, k + 1)

_should_ignore(line) ==
  IF strip(line) = <<>> THEN TRUE ELSE ignore_from(strip(line), 1)

\* m.group(1) of the first of the matches ms of PAREN_NUMBER in line: the digits
\* between the parentheses (<<>> stands for m is None; \d+ is never empty)
first_paren_digits(line, ms) ==
  IF ms = <<>> THEN <<>> ELSE SubSeq(line, ms[1][1] + 1, ms[1][2] - 2)

\* m.group(1) of m = re.search(r"\((\d+)\)", line) at line 80
paren_digits(line) == first_paren_digits(line, FindIter(PAREN_NUMBER, line, FALSE))

ValueError == "ValueError"

\* lines 78-84, given high = SPELL_CAST_HIGH_CMC.search(line), cast_paren = the
\* re.search of line 78 and digits = the group of line 80: the kind returned
\* there, ValueError when int() raises, None when control falls through to
\* line 85
high_cmc(high, cast_paren, digits) ==
  IF ~(high \/ cast_paren) THEN None
  ELSE IF digits # <<>> /\ int_raises(digits) THEN ValueError
  ELSE IF digits # <<>> /\ int(digits) >= 5 THEN "spell_cast_high_cmc"
  ELSE IF high THEN "spell_cast_high_cmc"
  ELSE None

\* faulty variant of after_high_cmc: the generic cast rule is tried before the
\* zone change and the win
after_high_cmc_cast_first(line, outcome) ==
  IF outcome # None THEN outcome
  ELSE IF Search(CAST_VERB, line) THEN "spell_cast"
  ELSE IF Search(ZONE_CHANGE, line) THEN "zone_change_gy_to_bf"
  ELSE IF Search(WIN_CONDITION, line) THEN "win_condition"
  ELSE None

\* faulty variant of after_high_cmc: only "wins the game" counts as a win
after_high_cmc_wins_only(line, outcome) ==
  IF outcome # None THEN outcome
  ELSE IF Search(ZONE_CHANGE, line) THEN "zone_change_gy_to_bf"
  ELSE IF Search(WIN_CONDITION.rs[1], line) THEN "win_condition"
  ELSE IF Search(CAST_VERB, line) THEN "spell_cast"
  ELSE None

\* lines 85-92, reached with the outcome of lines 78-84
after_high_cmc(line, outcome) ==
  IF outcome # None THEN outcome
  ELSE IF Search(ZONE_CHANGE, line) THEN "zone_change_gy_to_bf"
  ELSE IF Search(WIN_CONDITION, line) THEN "win_condition"
  ELSE IF Search(CAST_VERB, line) THEN "spell_cast"
  ELSE None

\* faulty variant of _classify_line: the life change is looked for before the
\* noise filter is asked
_classify_line_life_first(line) ==
  IF Search(LIFE_CHANGE, line) THEN "life_change"
  ELSE IF _should_ignore(line) THEN None
  ELSE after_high_cmc(line,
         high_cmc(Search(SPELL_CAST_HIGH_CMC, line), Search(CAST_PAREN_NUMBER, line),
                  paren_digits(line)))

\* _classify_line: the kind it returns, None, or ValueError when it raises
_classify_line(line) ==
  IF _should_ignore(line) THEN None
  ELSE IF Search(LIFE_CHANGE, line) THEN "life_change"
  ELSE after_high_cmc(line,
         high_cmc(Search(SPELL_CAST_HIGH_CMC, line), Search(CAST_PAREN_NUMBER, line),
                  paren_digits(line)))

(***************************************************************************)
(* _turn_ranges and the two per-turn aggregators.                          *)
(***************************************************************************)
\* m.group(1) of a TURN_LINE match m = <<i, e>>: "Turn" is four characters,
\* the greedy \s+ takes the whole whitespace run (a digit follows it) and the
\* greedy \d+ the rest of the match
turn_digits(log, m) == SubSeq(log, RunEnd(Sp, log, m[1] + 4), m[2] - 1)

\* some int(m.group(1)) of line 97 raises, for the matches ms of TURN_LINE
some_turn_raises(log, ms) ==
  \E k \in 1..Len(ms) : int_raises(turn_digits(log, ms[k]))

\* _turn_ranges raises ValueError
turn_ranges_raises(log) == some_turn_raises(log, FindIter(TURN_LINE, log, TRUE))

\* faulty variant of turn_pairs: the first span starts with the transcript
turn_pairs_from_start(log, ms) ==
  [k \in 1..Len(ms) |-> <<int(turn_digits(log, ms[k])), IF k = 1 THEN 0 ELSE ms[k][1] - 1>>]

\* the list comprehension of line 97 over the matches ms of TURN_LINE:
\* <<turn_number, start_offset>> per match, offsets counted from 0 as m.start()
turn_pairs(log, ms) ==
  [k \in 1..Len(ms) |-> <<int(turn_digits(log, ms[k])), ms[k][1] - 1>>]

\* _turn_ranges, when it returns
_turn_ranges(log) == turn_pairs(log, FindIter(TURN_LINE, log, TRUE))

\* faulty variant of chunk: every span runs to the end of the transcript
chunk_to_end(log, turn_ranges, i) ==
  SubSeq(log, turn_ranges[i][2] + 1, Len(log))

\* log[start:end] of span i (lines 107-108 and 123-124)
chunk(log, turn_ranges, i) ==
  SubSeq(log, turn_ranges[i][2] + 1,
         IF i + 1 <= Len(turn_ranges) THEN turn_ranges[i + 1][2] ELSE Len(log))

\* faulty variant of dict_set: a key that is present keeps its value
dict_set_keeps_first(result, key, value) ==
  [k \in (DOMAIN result) \cup {key} |-> IF k \in DOMAIN result THEN result[k] ELSE value]

\* result[key] = value on a dict
dict_set(result, key, value) ==
  [k \in (DOMAIN result) \cup {key} |-> IF k = key THEN value ELSE result[k]]

\* lines 109-112: the value stored for one chunk
mana_events(ch) ==
  [mana_events |-> Len(FindIter(MANA_PRODUCED, ch, FALSE)) + Len(FindIter(TAP_FOR, ch, FALSE))]

RECURSIVE mana_loop(_, _, _, _)
\* the for loop of _mana_per_turn from span i on
mana_loop(log, turn_ranges, i, result) ==
  IF i > Len(turn_ranges) THEN result
  ELSE mana_loop(log, turn_ranges, i + 1,
                 dict_set(result, turn_ranges[i][1], mana_events(chunk(log, turn_ranges, i))))

_mana_per_turn(log) == mana_loop(log, _turn_ranges(log), 1, <<>>)

\* sum(int(m) for m in matches): the sum of the numbers captured by DRAW_NUMBER;
\* the only digits inside a match are those of its group
RECURSIVE draw_total(_, _, _)
draw_total(ch, ms, k) ==
  IF k > Len(ms) THEN 0
  ELSE int(SelectSeq(SubSeq(ch, ms[k][1], ms[k][2] - 1), LAMBDA c : c \in Digits))
       + draw_total(ch, ms, k + 1)

\* faulty variant of cards_drawn: a numeric draw is counted by the singular
\* counter as well
cards_drawn_counted_twice(ch) ==
  draw_total(ch, FindIter(DRAW_NUMBER, ch, FALSE), 1) + Len(FindIter(DRAW_NUMBER, ch, FALSE))
  + Len(FindIter(DRAW_SINGLE, ch, FALSE))

\* lines 126-130: the value stored for one chunk
cards_drawn(ch) ==
  draw_total(ch, FindIter(DRAW_NUMBER, ch, FALSE), 1) + Len(FindIter(DRAW_SINGLE, ch, FALSE))

\* some int(m) of line 127 raises, for the matches ms of DRAW_NUMBER in ch
some_draw_raises(ch, ms) ==
  \E k \in 1..Len(ms) :
     int_raises(SelectSeq(SubSeq(ch, ms[k][1], ms[k][2] - 1), LAMBDA c : c \in Digits))

\* line 127 raises ValueError on the chunk
cards_drawn_raises(ch) == some_draw_raises(ch, FindIter(DRAW_NUMBER, ch, FALSE))

RECURSIVE cards_loop(_, _, _, _)
\* the for loop of _cards_drawn_per_turn from span i on
cards_loop(log, turn_ranges, i, result) ==
  IF i > Len(turn_ranges) THEN result
  ELSE cards_loop(log, turn_ranges, i + 1,
                  dict_set(result, turn_ranges[i][1], cards_drawn(chunk(log, turn_ranges, i))))

\* the entries of a dict whose count is positive
positive_entries(result) == [k \in {j \in DOMAIN result : result[j] > 0} |-> result[k]]

\* faulty variant of _cards_drawn_per_turn: a turn without draws gets no entry
_cards_drawn_per_turn_skips_zero(log) ==
  positive_entries(cards_loop(log, _turn_ranges(log), 1, <<>>))

_cards_drawn_per_turn(log) == cards_loop(log, _turn_ranges(log), 1, <<>>)

\* faulty variant of max_turn: the number of the last marker seen
max_turn_last_seen(turn_ranges) ==
  IF turn_ranges = <<>> THEN 0 ELSE turn_ranges[Len(turn_ranges)][1]

\* faulty variant of max_turn: turns counted from 1 when there is no marker
max_turn_default_one(turn_ranges) ==
  IF turn_ranges = <<>> THEN 1
  ELSE turn_ranges[CHOOSE k \in 1..Len(turn_ranges) :
                     \A j \in 1..Len(turn_ranges) : turn_ranges[j][1] <= turn_ranges[k][1]][1]

\* max(turn_ranges, key=lambda t: t[0])[0] if turn_ranges else 0: max returns
\* the first of the elements with the greatest key
max_turn(turn_ranges) ==
  IF turn_ranges = <<>> THEN 0
  ELSE turn_ranges[CHOOSE k \in 1..Len(turn_ranges) :
                     /\ \A j \in 1..Len(turn_ranges) : turn_ranges[j][1] <= turn_ranges[k][1]
                     /\ \A j \in 1..(k - 1) : turn_ranges[j][1] < turn_ranges[k][1]][1]

\* the 200 of line.strip()[:200]
LINE_LIMIT == 200

\* s[:n]
slice_to(s, n) == SubSeq(s, 1, IF Len(s) < n THEN Len(s) ELSE n)

\* faulty variant of kept_event: the line is cut before it is trimmed
kept_event_cut_first(event_type, line) ==
  [type |-> event_type, line |-> strip(slice_to(line, LINE_LIMIT))]

\* {"type": event_type, "line": line.strip()[:200]}
kept_event(event_type, line) ==
  [type |-> event_type, line |-> slice_to(strip(line), LINE_LIMIT)]

\* lines 144-145: kept after one line was classified event_type
keep(kept, event_type, line) ==
  IF event_type # None THEN Append(kept, kept_event(event_type, line)) ELSE kept

RECURSIVE kept_loop(_, _, _)
\* the for loop of lines 142-145 from line i on
kept_loop(lines, i, kept) ==
  IF i > Len(lines) THEN kept
  ELSE kept_loop(lines, i + 1, keep(kept, _classify_line(lines[i]), lines[i]))

\* condense run alone, when it returns
Condense(log) ==
  [kept_events |-> kept_loop(splitlines(log), 1, <<>>),
   mana_per_turn |-> _mana_per_turn(log),
   cards_drawn_per_turn |-> _cards_drawn_per_turn(log),
   turn_count |-> max_turn(_turn_ranges(log))]
(***************************************************************************)
(* judge_agent.analyze and the /analyze handler of main.py: the values     *)
(* they work on.                                                           *)
(***************************************************************************)
\* what json.loads returns, tagged with the name of its Python type
IntV(n)        == [t |-> "int", v |-> n]
Float(tenths) == [t |-> "float", v |-> tenths]     \* the number tenths / 10
Str(s)        == [t |-> "str", v |-> s]
Bool(b)       == [t |-> "bool", v |-> b]
Null          == [t |-> "NoneType", v |-> 0]
List(xs)      == [t |-> "list", v |-> xs]
Dict(f)       == [t |-> "dict", v |-> f]

\* an exception object, and the absence of one
Raise(type, msg) == [type |-> type, msg |-> msg]
NoException == Raise("none", <<>>)

\* the exception classes that except ValueError catches: json.JSONDecodeError
\* is a subclass of ValueError
ValueErrors == {"ValueError", "JSONDecodeError"}

\* needle in hay, on str
contains(hay, needle) ==
  \E i \in 1..(Len(hay) - Len(needle) + 1) : SubSeq(hay, i, i + Len(needle) - 1) = needle

GEMINI_API_KEY == <<"G","E","M","I","N","I","_","A","P","I","_","K","E","Y">>

RECURSIVE str_of_nat(_)
\* str(n) for n >= 0
str_of_nat(n) ==
  IF n < 10 THEN <<<<"0","1","2","3","4","5","6","7","8","9">>[n + 1]>>
  ELSE str_of_nat(n \div 10) \o str_of_nat(n % 10)

\* str(n) of an int
str_of_int(n) == IF n < 0 THEN <<"-">> \o str_of_nat(0 - n) ELSE str_of_nat(n)

\* the outcome of a call that returns value or raises exc
Returns(value) == [exc |-> NoException, value |-> value]
Raises(type, msg) == [exc |-> Raise(type, msg), value |-> Null]

\* int(s) of a str: surrounding whitespace and one sign are accepted, the rest
\* must be decimal digits
int_of_str(s, body) ==
  IF body # <<>> /\ \A k \in 1..Len(body) : body[k] \in Digits
  THEN Returns(IF strip(s)[1] = "-" THEN 0 - int(body) ELSE int(body))
  ELSE Raises("ValueError", <<"i","n","v","a","l","i","d"," ","l","i","t","e","r","a","l"," ","f","o","r"," ","i","n","t","(",")"," ","w","i","t","h"," ","b","a","s","e"," ","1","0",":"," ","'">> \o s \o <<"'">>)

\* the digits of a stripped numeric string, after its sign if it has one
unsigned(stripped) ==
  IF stripped # <<>> /\ stripped[1] \in {"+", "-"} THEN Tail(stripped) ELSE stripped

\* type(x).__name__
type_name(x) ==
  CASE x.t = "int" -> <<"i","n","t">>
    [] x.t = "float" -> <<"f","l","o","a","t">>
    [] x.t = "str" -> <<"s","t","r">>
    [] x.t = "bool" -> <<"b","o","o","l">>
    [] x.t = "NoneType" -> <<"N","o","n","e","T","y","p","e">>
    [] x.t = "list" -> <<"l","i","s","t">>
    [] x.t = "dict" -> <<"d","i","c","t">>

\* int(x) as line 177 calls it: an int is itself, a bool 0 or 1, a float is cut
\* towards zero, a str is parsed, anything else is a TypeError
py_int(x) ==
  CASE x.t = "int" -> Returns(x.v)
    [] x.t = "bool" -> Returns(IF x.v THEN 1 ELSE 0)
    [] x.t = "float" -> Returns(IF x.v < 0 THEN 0 - ((0 - x.v) \div 10) ELSE x.v \div 10)
    [] x.t = "str" -> int_of_str(x.v, unsigned(strip(x.v)))
    [] OTHER -> Raises("TypeError",
                       <<"i","n","t","(",")"," ","a","r","g","u","m","e","n","t"," ","m","u","s","t"," ","b","e"," ","a"," ","s","t","r","i","n","g",","," ","a"," ","b","y","t","e","s","-","l","i","k","e"," ","o","b","j","e","c","t"," ","o","r"," ","a"," ","r","e","a","l"," ","n","u","m","b","e","r",","," ","n","o","t"," ","'">>
                       \o type_name(x) \o <<"'">>)

(***************************************************************************)
(* The text of a Gemini response, as the pieces the code tells apart.      *)
(***************************************************************************)
\* a piece of response.text between two "\n" (a JSON document counts as one
\* piece): an opening fence "```json", a bare fence "```", a JSON document, a
\* document between fences on one line, prose that is no JSON, or whitespace
FenceOpen   == [k |-> "fence_open", v |-> Null]
Fence       == [k |-> "fence", v |-> Null]
Doc(value)  == [k |-> "doc", v |-> value]
Inline(value) == [k |-> "inline", v |-> value]
Prose       == [k |-> "prose", v |-> Null]
Blank       == [k |-> "blank", v |-> Null]

RECURSIVE lstrip_blank(_)
lstrip_blank(text) ==
  IF text # <<>> /\ text[1] = Blank THEN lstrip_blank(Tail(text)) ELSE text

RECURSIVE rstrip_blank(_)
rstrip_blank(text) ==
  IF text # <<>> /\ text[Len(text)] = Blank
  THEN rstrip_blank(SubSeq(text, 1, Len(text) - 1)) ELSE text

\* response.text.strip() at line 147
text_strip(text) == rstrip_blank(lstrip_blank(text))

\* piece.startswith("```")
starts_fence(piece) == piece.k \in {"fence_open", "fence", "inline"}

\* lines 152-154 on the lines left after the first one was dropped: a last
\* line that is a bare fence goes too
drop_last_fence(lines) ==
  IF lines # <<>> /\ lines[Len(lines)] = Fence
  THEN SubSeq(lines, 1, Len(lines) - 1) ELSE lines

\* lines 149-155: the markdown code fence is taken off
unfence(text) ==
  IF text # <<>> /\ starts_fence(text[1]) THEN drop_last_fence(Tail(text)) ELSE text

\* json.loads(text): whitespace around the one document is allowed
json_loads(text) ==
  IF text_strip(text) = <<>> \/ text_strip(text)[1].k # "doc"
  THEN Raises("JSONDecodeError", <<"E","x","p","e","c","t","i","n","g"," ","v","a","l","u","e",":"," ","l","i","n","e"," ","1"," ","c","o","l","u","m","n"," ","1"," ","(","c","h","a","r"," ","0",")">>)
  ELSE IF Len(text_strip(text)) > 1
  THEN Raises("JSONDecodeError", <<"E","x","t","r","a"," ","d","a","t","a",":"," ","l","i","n","e"," ","2"," ","c","o","l","u","m","n"," ","1">>)
  ELSE Returns(text_strip(text)[1].v)

\* lines 160-168: the list of results inside what was parsed
results_of(parsed) ==
  IF parsed.t = "dict" /\ "results" \in DOMAIN parsed.v
  THEN IF parsed.v["results"].t = "list" THEN Returns(parsed.v["results"])
       ELSE Raises("ValueError", <<"E","x","p","e","c","t","e","d"," ","r","e","s","u","l","t","s"," ","t","o"," ","b","e"," ","a"," ","l","i","s","t",","," ","g","o","t"," ","<","c","l","a","s","s"," ","'">>
                                 \o type_name(parsed.v["results"]) \o <<"'",">">>)
  ELSE IF parsed.t = "list" THEN Returns(parsed)
  ELSE Raises("ValueError", <<"U","n","e","x","p","e","c","t","e","d"," ","r","e","s","p","o","n","s","e"," ","f","o","r","m","a","t",":"," ","<","c","l","a","s","s"," ","'">>
                            \o type_name(parsed) \o <<"'",">">>)

\* lines 157-168 on the outcome of json.loads
parse_outcome(loaded) ==
  IF loaded.exc # NoException THEN loaded ELSE results_of(loaded.value)

\* lines 147-168: the results list of a response text, or what is raised
parse_results(text) == parse_outcome(json_loads(unfence(text_strip(text))))

\* the keys line 173 asks for, in its order, with their text
REQUIRED_KEYS ==
  << [key |-> "deck_name", text |-> <<"d","e","c","k","_","n","a","m","e">>],
     [key |-> "bracket", text |-> <<"b","r","a","c","k","e","t">>],
     [key |-> "confidence", text |-> <<"c","o","n","f","i","d","e","n","c","e">>],
     [key |-> "reasoning", text |-> <<"r","e","a","s","o","n","i","n","g">>] >>

\* key not in r, for a dict r
missing_keys(r) == {k \in 1..Len(REQUIRED_KEYS) : REQUIRED_KEYS[k].key \notin DOMAIN r.v}

\* r.get("weaknesses", "")
weaknesses_of(r) == IF "weaknesses" \in DOMAIN r.v THEN r.v["weaknesses"] ELSE Str(<<>>)

\* lines 178-187 given the outcome of int(r["bracket"])
validated_with(r, bracket) ==
  IF bracket.exc # NoException THEN bracket
  ELSE IF bracket.value \notin 1..5
  THEN Raises("ValueError", <<"I","n","v","a","l","i","d"," ","b","r","a","c","k","e","t",":"," ">> \o str_of_int(bracket.value))
  ELSE Returns(Dict([deck_name |-> r.v["deck_name"],
                     bracket |-> IntV(bracket.value),
                     confidence |-> r.v["confidence"],
                     reasoning |-> r.v["reasoning"],
                     weaknesses |-> weaknesses_of(r)]))

\* lines 173-187 on one result r: the validated dict, or what is raised. The
\* test key not in r raises TypeError on a value that is no container
validate_result(r) ==
  IF r.t # "dict"
  THEN Raises("TypeError", <<"a","r","g","u","m","e","n","t"," ","o","f"," ","t","y","p","e"," ","'">> \o type_name(r) \o <<"'"," ","i","s"," ","n","o","t"," ","i","t","e","r","a","b","l","e">>)
  ELSE IF missing_keys(r) # {}
  THEN Raises("ValueError",
              <<"G","e","m","i","n","i"," ","r","e","s","u","l","t"," ","m","i","s","s","i","n","g"," ","k","e","y",":"," ">> \o REQUIRED_KEYS[SetMin(missing_keys(r))].text)
  ELSE validated_with(r, py_int(r.v["bracket"]))

\* main.py lines 86-96: the status of the HTTPException raised for exception e
status_of_exception(e) ==
  IF e.type \in ValueErrors
  THEN IF contains(e.msg, GEMINI_API_KEY) THEN 503 ELSE 502
  ELSE 502

\* main.py lines 99-110: DeckBracketResult takes str for the four text fields;
\* a None there fails its validation outside the try block, which the
\* framework answers with 500
response_status(validated) ==
  IF \A k \in 1..Len(validated) :
        \A key \in {"deck_name", "confidence", "reasoning", "weaknesses"} :
           validated[k].v[key].t = "str"
  THEN 200 ELSE 500

\* os.environ.get("GEMINI_API_KEY"): None when the variable is not set, else
\* its value
Unset == [set |-> FALSE, value |-> <<>>]
EnvValue(s) == [set |-> TRUE, value |-> s]

\* what client.models.generate_content did: raised error, or returned a
\* response with this text
Failed(error) == [error |-> error, text |-> <<>>]
Reply(text) == [error |-> NoException, text |-> text]
NoResponse == Reply(<<>>)

(***************************************************************************)
(* condense as a state machine.  Every invocation has a frame f with its   *)
(* own locals; the module keeps no mutable state of its own (the compiled  *)
(* patterns are never written).                                            *)
(***************************************************************************)
VARIABLES
  pc,                    \* f -> where the invocation stands
  raw_log,               \* f -> the argument of condense
  lines,                 \* f -> raw_log.splitlines(), the list the for loop walks
  idx,                   \* f -> index of the next line of the loop
  kept_events,           \* f -> the local list kept_events
  turn_ranges,           \* f -> the local turn_ranges
  mana_per_turn,         \* f -> the value of _mana_per_turn(raw_log)
  cards_drawn_per_turn,  \* f -> the value of _cards_drawn_per_turn(raw_log)
  result,                \* f -> the dict condense returned
  budget,                \* f -> calls the caller may still make in this frame slot
  returned,              \* <<argument, summary>> of every call that returned, in order
  api_pc,                \* where the POST /analyze request stands
  api_key,               \* os.environ.get("GEMINI_API_KEY") as the request finds it
  calls,                 \* calls of client.models.generate_content so far
  response,              \* what generate_content did: the error raised or the text
  results,               \* the local results of judge_agent.analyze
  r_idx,                 \* index of the next result of the validation loop
  validated_results,     \* the local validated_results
  exc,                   \* the exception on its way to the except clauses of main.py
  status                 \* the HTTP status answered, 0 before

condense_vars == <<pc, raw_log, lines, idx, kept_events, turn_ranges, mana_per_turn,
                   cards_drawn_per_turn, result, budget, returned>>

analyze_vars == <<api_pc, api_key, calls, response, results, r_idx, validated_results,
                  exc, status>>

vars == <<condense_vars, analyze_vars>>

Frames == DOMAIN pc

\* faulty variant of Enter: kept_events is a list that outlives the call
Enter_keeps_list(f, log) ==
  /\ pc[f] \in {"idle", "done", "raised"}
  /\ budget[f] > 0
  /\ budget' = [budget EXCEPT ![f] = @ - 1]
  /\ raw_log' = [raw_log EXCEPT ![f] = log]
  /\ lines' = [lines EXCEPT ![f] = splitlines(log)]
  /\ idx' = [idx EXCEPT ![f] = 1]
  /\ turn_ranges' = [turn_ranges EXCEPT ![f] = <<>>]
  /\ mana_per_turn' = [mana_per_turn EXCEPT ![f] = <<>>]
  /\ cards_drawn_per_turn' = [cards_drawn_per_turn EXCEPT ![f] = <<>>]
  /\ result' = [result EXCEPT ![f] = <<>>]
  /\ pc' = [pc EXCEPT ![f] = "loop"]
  /\ UNCHANGED <<returned, kept_events>>
  /\ UNCHANGED analyze_vars

\* line 141: kept_events = [], and the iterable of the for loop at line 142
Enter(f, log) ==
  /\ pc[f] \in {"idle", "done", "raised"}
  /\ budget[f] > 0
  /\ budget' = [budget EXCEPT ![f] = @ - 1]
  /\ raw_log' = [raw_log EXCEPT ![f] = log]
  /\ kept_events' = [kept_events EXCEPT ![f] = <<>>]
  /\ lines' = [lines EXCEPT ![f] = splitlines(log)]
  /\ idx' = [idx EXCEPT ![f] = 1]
  /\ turn_ranges' = [turn_ranges EXCEPT ![f] = <<>>]
  /\ mana_per_turn' = [mana_per_turn EXCEPT ![f] = <<>>]
  /\ cards_drawn_per_turn' = [cards_drawn_per_turn EXCEPT ![f] = <<>>]
  /\ result' = [result EXCEPT ![f] = <<>>]
  /\ pc' = [pc EXCEPT ![f] = "loop"]
  /\ UNCHANGED returned
  /\ UNCHANGED analyze_vars

\* faulty variant of LoopBody: every invocation appends to the list of frame 1
LoopBody_shared_list(f, line, event_type) ==
  IF event_type = ValueError
  THEN /\ pc' = [pc EXCEPT ![f] = "raised"]
       /\ UNCHANGED <<kept_events, idx>>
  ELSE /\ kept_events' = [kept_events EXCEPT ![1] = keep(@, event_type, line)]
       /\ idx' = [idx EXCEPT ![f] = @ + 1]
       /\ UNCHANGED pc

\* lines 143-145 for a line classified event_type: the exception leaves the
\* frame, anything else moves on to the next line
LoopBody(f, line, event_type) ==
  IF event_type = ValueError
  THEN /\ pc' = [pc EXCEPT ![f] = "raised"]
       /\ UNCHANGED <<kept_events, idx>>
  ELSE /\ kept_events' = [kept_events EXCEPT ![f] = keep(@, event_type, line)]
       /\ idx' = [idx EXCEPT ![f] = @ + 1]
       /\ UNCHANGED pc

\* lines 142-145: one iteration of the for loop
LoopLine(f) ==
  /\ pc[f] = "loop"
  /\ idx[f] <= Len(lines[f])
  /\ LoopBody(f, lines[f][idx[f]], _classify_line(lines[f][idx[f]]))
  /\ UNCHANGED <<raw_log, lines, turn_ranges, mana_per_turn, cards_drawn_per_turn,
                 result, budget, returned>>
  /\ UNCHANGED analyze_vars

\* line 147: turn_ranges = _turn_ranges(raw_log), once the loop is exhausted
TurnRanges(f) ==
  /\ pc[f] = "loop"
  /\ idx[f] > Len(lines[f])
  /\ IF turn_ranges_raises(raw_log[f])
     THEN /\ pc' = [pc EXCEPT ![f] = "raised"]
          /\ UNCHANGED turn_ranges
     ELSE /\ turn_ranges' = [turn_ranges EXCEPT ![f] = _turn_ranges(raw_log[f])]
          /\ pc' = [pc EXCEPT ![f] = "mana"]
  /\ UNCHANGED <<raw_log, lines, idx, kept_events, mana_per_turn, cards_drawn_per_turn,
                 result, budget, returned>>
  /\ UNCHANGED analyze_vars

\* line 151: _mana_per_turn(raw_log); its own _turn_ranges call cannot raise
\* where the one of line 147 did not
ManaPerTurn(f) ==
  /\ pc[f] = "mana"
  /\ mana_per_turn' = [mana_per_turn EXCEPT ![f] = _mana_per_turn(raw_log[f])]
  /\ pc' = [pc EXCEPT ![f] = "cards"]
  /\ UNCHANGED <<raw_log, lines, idx, kept_events, turn_ranges, cards_drawn_per_turn,
                 result, budget, returned>>
  /\ UNCHANGED analyze_vars

\* _cards_drawn_per_turn raises: some span's line 127 does
some_chunk_raises(log, ranges) ==
  \E i \in 1..Len(ranges) : cards_drawn_raises(chunk(log, ranges, i))

cards_per_turn_raises(log) == some_chunk_raises(log, _turn_ranges(log))

\* line 152: _cards_drawn_per_turn(raw_log)
CardsDrawnPerTurn(f) ==
  /\ pc[f] = "cards"
  /\ IF cards_per_turn_raises(raw_log[f])
     THEN /\ pc' = [pc EXCEPT ![f] = "raised"]
          /\ UNCHANGED cards_drawn_per_turn
     ELSE /\ cards_drawn_per_turn' =
               [cards_drawn_per_turn EXCEPT ![f] = _cards_drawn_per_turn(raw_log[f])]
          /\ pc' = [pc EXCEPT ![f] = "return"]
  /\ UNCHANGED <<raw_log, lines, idx, kept_events, turn_ranges, mana_per_turn,
                 result, budget, returned>>
  /\ UNCHANGED analyze_vars

\* lines 149-154: the returned dict, turn_count computed from the local turn_ranges
Return(f) ==
  /\ pc[f] = "return"
  /\ result' = [result EXCEPT ![f] =
                  [kept_events |-> kept_events[f],
                   mana_per_turn |-> mana_per_turn[f],
                   cards_drawn_per_turn |-> cards_drawn_per_turn[f],
                   turn_count |-> max_turn(turn_ranges[f])]]
  /\ returned' = Append(returned, <<raw_log[f], result'[f]>>)
  /\ pc' = [pc EXCEPT ![f] = "done"]
  /\ UNCHANGED <<raw_log, lines, idx, kept_events, turn_ranges, mana_per_turn,
                 cards_drawn_per_turn, budget>>
  /\ UNCHANGED analyze_vars

\* what one invocation does after it was entered
Step(f) ==
  \/ LoopLine(f)
  \/ TurnRanges(f)
  \/ ManaPerTurn(f)
  \/ CardsDrawnPerTurn(f)
  \/ Return(f)

\* no request was received yet
NoRequest ==
  /\ api_pc = "idle"
  /\ api_key = Unset
  /\ calls = 0
  /\ response = NoResponse
  /\ results = <<>>
  /\ r_idx = 1
  /\ validated_results = <<>>
  /\ exc = NoException
  /\ status = 0

\* n frame slots, each good for k calls, nothing called yet
InitFrames(n, k) ==
  /\ pc = [f \in 1..n |-> "idle"]
  /\ raw_log = [f \in 1..n |-> <<>>]
  /\ lines = [f \in 1..n |-> <<>>]
  /\ idx = [f \in 1..n |-> 1]
  /\ kept_events = [f \in 1..n |-> <<>>]
  /\ turn_ranges = [f \in 1..n |-> <<>>]
  /\ mana_per_turn = [f \in 1..n |-> <<>>]
  /\ cards_drawn_per_turn = [f \in 1..n |-> <<>>]
  /\ result = [f \in 1..n |-> <<>>]
  /\ budget = [f \in 1..n |-> k]
  /\ returned = <<>>
  /\ NoRequest

(***************************************************************************)
(* The transcripts the invocations are given.                              *)
(***************************************************************************)
MaxPhrases == 2     \* phrases per one-line transcript
MaxLines == 3       \* lines per multi-line transcript

RECURSIVE Join(_, _)
\* sep.join(parts)
Join(parts, sep) ==
  IF parts = <<>> THEN <<>>
  ELSE IF Len(parts) = 1 THEN parts[1]
  ELSE parts[1] \o sep \o Join(Tail(parts), sep)

\* phrases of Forge log lines: noise, extra draws, and one or more of every
\* kind of kept event
Phrases ==
  << <<"p","l","a","y","e","r"," ","p","a","s","s","e","s"," ","p","r","i","o","r","i","t","y",".">>,
     <<"U","n","t","a","p"," ","s","t","e","p",".">>,
     <<"D","r","a","w"," ","s","t","e","p",".">>,
     <<"D","r","a","w"," ","s","t","e","p",":"," ","c","a","s","t","s"," ","X",","," ","d","r","a","w","s"," ","2"," ","c","a","r","d","s">>,
     <<"d","r","a","w","s"," ","a","n"," ","a","d","d","i","t","i","o","n","a","l"," ","c","a","r","d">>,
     <<"d","r","a","w","s"," ","e","x","t","r","a"," ","c","a","r","d","s">>,
     <<"T","u","r","n"," ","3",":">>,
     <<"c","a","s","t","s"," ","X">>,
     <<"(","8",")">>,
     <<"(","C","M","C"," ","2",")">>,
     <<"g","a","i","n","s"," ","2"," ","l","i","f","e">>,
     <<"g","r","a","v","e","y","a","r","d"," ","-",">"," ","b","a","t","t","l","e","f","i","e","l","d">>,
     <<"G","a","m","e"," ","O","v","e","r",".">>,
     <<"w","i","n","s"," ","t","h","e"," ","g","a","m","e">>,
     <<"l","o","s","e","s"," ","t","h","e"," ","g","a","m","e">>,
     <<"w","i","n","n","e","r">> >>

RECURSIVE Pick(_, _)
\* the phrases whose index is in I, from index k on, in the order of Phrases
Pick(I, k) ==
  IF k > Len(Phrases) THEN <<>>
  ELSE (IF k \in I THEN <<Phrases[k]>> ELSE <<>>) \o Pick(I, k + 1)

\* one line made of 1..MaxPhrases different phrases
OneLiners ==
  { Join(Pick(I, 1), <<" ">>) :
      I \in {J \in SUBSET (1..Len(Phrases)) : Cardinality(J) \in 1..MaxPhrases} }

\* kept lines around the 200-character limit: 199, 200 and 201 characters
\* once stripped
LongLines ==
  { <<" ", "\t">> \o <<"c","a","s","t","s"," ">> \o [k \in 1..n |-> "x"] \o <<" ">> :
      n \in (LINE_LIMIT - 7)..(LINE_LIMIT - 5) }

\* lines of a turn-delimited log
LogLines ==
  { <<"T","u","r","n"," ","1",":">>,
    <<"T","u","r","n"," ","3",":"," ","P","l","a","y","e","r"," ","A"," ","c","a","s","t","s"," ","X"," ","(","8",")">>,
    <<"T","U","R","N"," ","2",":"," ","d","r","a","w","s"," ","2"," ","c","a","r","d","s","."," ","D","r","a","w","s"," ","a"," ","c","a","r","d",".">>,
    <<" ","T","a","p"," ","M","o","u","n","t","a","i","n"," ","f","o","r"," ","R","."," ","A","d","d","s"," ","1"," ","m","a","n","a",".">>,
    <<"G","a","m","e"," ","O","v","e","r","."," ","P","l","a","y","e","r"," ","A"," ","w","i","n","s"," ","t","h","e"," ","g","a","m","e",".">> \o <<"\r">> }

\* logs of 0..MaxLines lines
TurnLogs ==
  UNION { {Join(ls, <<"\n">>) : ls \in [1..n -> LogLines]} : n \in 0..MaxLines }

\* the lines of test_condense_ignores_noise: headers and noise
NoiseLines ==
  { <<"T","u","r","n"," ","1",":">>, <<"T","u","r","n"," ","2",":">>, <<"P","l","a","y","e","r"," ","p","a","s","s","e","s"," ","p","r","i","o","r","i","t","y",".">>, <<"U","n","t","a","p"," ","s","t","e","p",".">>, <<"D","r","a","w"," ","s","t","e","p",".">> }

\* logs of 1..MaxLines header and noise lines
NoiseLogs ==
  UNION { {Join(ls, <<"\n">>) : ls \in [1..n -> NoiseLines]} : n \in 1..MaxLines }

Transcripts == OneLiners \cup LongLines \cup TurnLogs \cup NoiseLogs

(***************************************************************************)
(* Specifications.                                                         *)
(***************************************************************************)
\* one invocation on any transcript
Init == InitFrames(1, 1)

Next ==
  \/ \E log \in Transcripts : Enter(1, log)
  \/ Step(1)

Spec == Init /\ [][Next]_vars

\* a cast line whose parenthesised number has one digit more than int() accepts
HugeLine == <<"c","a","s","t"," ","(">> \o [k \in 1..(INT_MAX_STR_DIGITS + 1) |-> "9"] \o <<")">>

\* one invocation on a turn-delimited log or on the line with the huge number
InitHuge == InitFrames(1, 1)

NextHuge ==
  \/ \E log \in TurnLogs \cup {HugeLine} : Enter(1, log)
  \/ Step(1)

SpecHuge == InitHuge /\ [][NextHuge]_vars

MaxCalls == 3       \* calls made one after the other

\* the transcripts of the calls in sequence: the empty one and every log line
SeqLogs == {<<>>} \cup LogLines

\* MaxCalls invocations one after the other, each on any transcript
InitSeq == InitFrames(1, MaxCalls)

NextSeq ==
  \/ \E log \in SeqLogs : Enter(1, log)
  \/ Step(1)

SpecSeq == InitSeq /\ [][NextSeq]_vars

MaxFrames == 2      \* invocations running at the same time

\* the transcripts of the parallel invocations
ParLogs ==
  { <<"T","u","r","n"," ","3",":"," ","P","l","a","y","e","r"," ","A"," ","c","a","s","t","s"," ","X"," ","(","8",")">>,
    Join(<<<<"T","U","R","N"," ","2",":"," ","d","r","a","w","s"," ","2"," ","c","a","r","d","s","."," ","D","r","a","w","s"," ","a"," ","c","a","r","d",".">>, <<"G","a","m","e"," ","O","v","e","r","."," ","P","l","a","y","e","r"," ","A"," ","w","i","n","s"," ","t","h","e"," ","g","a","m","e",".">>>>,
         <<"\n">>) }

\* MaxFrames invocations, one per frame, their steps interleaved in any way
InitPar == InitFrames(MaxFrames, 1)

NextPar ==
  \E f \in 1..MaxFrames :
    \/ \E log \in ParLogs : Enter(f, log)
    \/ Step(f)

SpecPar == InitPar /\ [][NextPar]_vars

(***************************************************************************)
(* POST /analyze: main.analyze around judge_agent.analyze.                 *)
(***************************************************************************)
\* a schema-valid payload arrives while the environment holds key
Post(key) ==
  /\ api_pc = "idle"
  /\ api_key' = key
  /\ api_pc' = "judge"
  /\ UNCHANGED <<calls, response, results, r_idx, validated_results, exc, status>>
  /\ UNCHANGED condense_vars

\* judge_agent.py lines 128-130: not api_key holds for None and for ""
CheckKey ==
  /\ api_pc = "judge"
  /\ IF ~api_key.set \/ api_key.value = <<>>
     THEN /\ exc' = Raise("ValueError", <<"G","E","M","I","N","I","_","A","P","I","_","K","E","Y"," ","e","n","v","i","r","o","n","m","e","n","t"," ","v","a","r","i","a","b","l","e"," ","i","s"," ","n","o","t"," ","s","e","t">>)
          /\ api_pc' = "except"
     ELSE /\ api_pc' = "call"
          /\ UNCHANGED exc
  /\ UNCHANGED <<api_key, calls, response, results, r_idx, validated_results, status>>
  /\ UNCHANGED condense_vars

\* judge_agent.py lines 135-145: the call of Gemini, which raises or returns
\* a response, and the test of an empty text
GenerateContent(reply) ==
  /\ api_pc = "call"
  /\ calls' = calls + 1
  /\ response' = reply
  /\ IF reply.error # NoException
     THEN /\ exc' = reply.error
          /\ api_pc' = "except"
     ELSE IF reply.text = <<>>
     THEN /\ exc' = Raise("RuntimeError", <<"G","e","m","i","n","i"," ","r","e","t","u","r","n","e","d"," ","e","m","p","t","y"," ","r","e","s","p","o","n","s","e">>)
          /\ api_pc' = "except"
     ELSE /\ api_pc' = "parse"
          /\ UNCHANGED exc
  /\ UNCHANGED <<api_key, results, r_idx, validated_results, status>>
  /\ UNCHANGED condense_vars

\* judge_agent.py lines 147-171: the text is unfenced and parsed, the list of
\* results is taken out of it
ParseResponse ==
  /\ api_pc = "parse"
  /\ IF parse_results(response.text).exc # NoException
     THEN /\ exc' = parse_results(response.text).exc
          /\ api_pc' = "except"
          /\ UNCHANGED <<results, r_idx, validated_results>>
     ELSE /\ results' = parse_results(response.text).value.v
          /\ r_idx' = 1
          /\ validated_results' = <<>>
          /\ api_pc' = "validate"
          /\ UNCHANGED exc
  /\ UNCHANGED <<api_key, calls, response, status>>
  /\ UNCHANGED condense_vars

\* judge_agent.py lines 172-187: one iteration of the validation loop
ValidateResult ==
  /\ api_pc = "validate"
  /\ r_idx <= Len(results)
  /\ IF validate_result(results[r_idx]).exc # NoException
     THEN /\ exc' = validate_result(results[r_idx]).exc
          /\ api_pc' = "except"
          /\ UNCHANGED <<r_idx, validated_results>>
     ELSE /\ validated_results' = Append(validated_results, validate_result(results[r_idx]).value)
          /\ r_idx' = r_idx + 1
          /\ UNCHANGED <<exc, api_pc>>
  /\ UNCHANGED <<api_key, calls, response, results, status>>
  /\ UNCHANGED condense_vars

\* judge_agent.py line 189: the loop is exhausted, validated_results goes back
\* to main.analyze
ReturnValidated ==
  /\ api_pc = "validate"
  /\ r_idx > Len(results)
  /\ api_pc' = "respond"
  /\ UNCHANGED <<api_key, calls, response, results, r_idx, validated_results, exc, status>>
  /\ UNCHANGED condense_vars

\* main.py lines 86-96: the except clauses answer with an HTTPException
Except ==
  /\ api_pc = "except"
  /\ status' = status_of_exception(exc)
  /\ api_pc' = "answered"
  /\ UNCHANGED <<api_key, calls, response, results, r_idx, validated_results, exc>>
  /\ UNCHANGED condense_vars

\* main.py lines 99-110: the response model is built and answered
Respond ==
  /\ api_pc = "respond"
  /\ status' = response_status(validated_results)
  /\ api_pc' = "answered"
  /\ UNCHANGED <<api_key, calls, response, results, r_idx, validated_results, exc>>
  /\ UNCHANGED condense_vars

MaxResults == 2     \* entries of the results list Gemini replies with

\* a result as the system prompt asks for it
GoodResult ==
  [deck_name |-> Str(<<"D","e","c","k"," ","A">>), bracket |-> IntV(3), confidence |-> Str(<<"H","i","g","h">>),
   reasoning |-> Str(<<"f","a","s","t">>)]

\* the values Gemini may give as bracket
Brackets ==
  {IntV(0), IntV(1), IntV(5), IntV(6), Float(37), Str(<<"3">>), Str(GEMINI_API_KEY), Null,
   Bool(TRUE)}

\* the entries Gemini may put in its results list
ResultPool ==
  {Dict([GoodResult EXCEPT !.bracket = b]) : b \in Brackets}
  \cup {Dict([k \in (DOMAIN GoodResult) \ {key} |-> GoodResult[k]]) : key \in DOMAIN GoodResult}
  \cup {Dict(GoodResult),
        Dict([GoodResult EXCEPT !.deck_name = Null]),
        Dict([deck_name |-> Str(<<"D","e","c","k"," ","B">>), bracket |-> IntV(2), confidence |-> Str(<<"L","o","w">>),
              reasoning |-> Str(<<"s","l","o","w">>), weaknesses |-> Str(<<"n","o"," ","r","a","m","p">>)]),
        IntV(5)}

\* the results lists of 0..MaxResults entries
ResultLists == UNION {[1..n -> ResultPool] : n \in 0..MaxResults}

\* a document {"results": [...]} with one good entry
GoodDoc == Dict([results |-> List(<<Dict(GoodResult)>>)])

\* what generate_content may do
GeminiOutcomes ==
  {Reply(<<Doc(Dict([results |-> List(rs)]))>>) : rs \in ResultLists}
  \cup {Reply(<<Doc(List(<<Dict(GoodResult)>>))>>),
        Reply(<<FenceOpen, Doc(GoodDoc), Fence>>),
        Reply(<<Blank, Doc(GoodDoc), Blank>>),
        Reply(<<Inline(GoodDoc)>>),
        Reply(<<Prose, Doc(GoodDoc)>>),
        Reply(<<Prose>>),
        Reply(<<Blank>>),
        Reply(<<>>),
        Reply(<<Doc(Dict([answer |-> IntV(3)]))>>),
        Reply(<<Doc(Dict([results |-> GoodDoc]))>>),
        Reply(<<Doc(IntV(3))>>),
        Failed(Raise("APIError", <<"A","P","I"," ","k","e","y"," ","n","o","t"," ","v","a","l","i","d","."," ","P","l","e","a","s","e"," ","p","a","s","s"," ","a"," ","v","a","l","i","d"," ","A","P","I"," ","k","e","y",".">>)),
        Failed(Raise("ServerError", <<"5","0","3"," ","U","N","A","V","A","I","L","A","B","L","E">>))}

\* the environments a request may find
Environments == {Unset, EnvValue(<<>>), EnvValue(<<"s","e","c","r","e","t">>)}

\* one request, whatever the environment holds and Gemini does
InitAnalyze == InitFrames(0, 0)

NextAnalyze ==
  \/ \E key \in Environments : Post(key)
  \/ CheckKey
  \/ \E reply \in GeminiOutcomes : GenerateContent(reply)
  \/ ParseResponse
  \/ ValidateResult
  \/ ReturnValidated
  \/ Except
  \/ Respond

SpecAnalyze == InitAnalyze /\ [][NextAnalyze]_vars

(***************************************************************************)
(* Cast lines with mana-value annotations.                                 *)
(***************************************************************************)
\* what a cast line is made of: who acts, the verb and the card, the annotation
\* of the mana value, and what else the line reports
CastSubjects == {<<>>, <<"Y"," ","(","8",")"," ">>, <<"(","8",")"," ">>}
CastVerbs == {<<"c","a","s","t","s"," ","X">>, <<"C","a","s","t","i","n","g"," ","X">>, <<"E","l","d","r","a","z","i"," ","T","i","t","a","n">>, <<"F","o","r","e","c","a","s","t">>}
CastAnnotations ==
  {<<>>, <<" ","(","8",")">>, <<" ","(","3",")">>, <<" ","(","5",")">>, <<" ","(","4",")">>, <<" ","(","1","2",")">>, <<" ","(","0","1",")">>, <<"(","8",")">>, <<" ","("," ","8"," ",")">>,
   <<" ","(","C","M","C"," ","2",")">>, <<" ","(","C","M","C"," ","5",")">>, <<" ","(","C","M","C"," ","0","4",")">>, <<" ","c","m","c","7">>, <<" ","(","3",")"," ","(","9",")">>}
CastEffects == {<<>>, <<" ","g","a","i","n","s"," ","2"," ","l","i","f","e">>, <<" ","w","i","n","s"," ","t","h","e"," ","g","a","m","e">>, <<":"," ","g","r","a","v","e","y","a","r","d"," ","-",">"," ","b","a","t","t","l","e","f","i","e","l","d">>}

CastLines ==
  {s \o v \o a \o e : s \in CastSubjects, v \in CastVerbs, a \in CastAnnotations,
                      e \in CastEffects}

\* one invocation on a log of one cast line
InitCast == InitFrames(1, 1)

NextCast ==
  \/ \E log \in CastLines : Enter(1, log)
  \/ Step(1)

SpecCast == InitCast /\ [][NextCast]_vars

(***************************************************************************)
(* Turns with draw phrases.                                                *)
(***************************************************************************)
MaxDraws == 2       \* draw phrases in the text of one turn

\* what a log says about a draw
DrawPhrases ==
  << <<"P","l","a","y","e","r"," ","A"," ","d","r","a","w","s"," ","3"," ","c","a","r","d","s">>, <<"P","l","a","y","e","r"," ","A"," ","d","r","a","w","s"," ","1"," ","c","a","r","d">>, <<"P","l","a","y","e","r"," ","A"," ","d","r","a","w","s"," ","a"," ","c","a","r","d">>,
     <<"P","l","a","y","e","r"," ","B"," ","d","r","a","w","s"," ","c","a","r","d">>, <<"D","R","A","W","S"," "," ","2"," ","C","a","r","d","s">>, <<"d","r","a","w","s"," ","c","a","r","d","s">>, <<"d","r","a","w","s"," ","a","n"," ","a","d","d","i","t","i","o","n","a","l"," ","c","a","r","d">>,
     <<"m","a","y"," ","d","r","a","w"," ","a"," ","c","a","r","d">> >>

\* the texts of a turn: up to MaxDraws draw phrases, each closed by a full stop
DrawTexts ==
  UNION { {Join([k \in 1..n |-> DrawPhrases[ps[k]]], <<"."," ">>) : ps \in [1..n -> DOMAIN DrawPhrases]} :
          n \in 0..MaxDraws }

\* one turn with its draws; and a cast with a draw and mana before the first
\* turn, turn 1 with mana and its draws, turn 2 with its header on a line of its
\* own, and a second span headed Turn 1
DrawLogs ==
  {<<"T","u","r","n"," ","1",":"," ">> \o t : t \in DrawTexts}
  \cup {<<"P","l","a","y","e","r"," ","A"," ","c","a","s","t","s"," ","X",","," ","d","r","a","w","s"," ","a"," ","c","a","r","d","."," ","A","d","d","s"," ","1"," ","m","a","n","a",".">> \o <<"\n">>
        \o <<"T","u","r","n"," ","1",":"," ","A","d","d","s"," ","2"," ","m","a","n","a",","," ","a","d","d","s"," ","1"," ","m","a","n","a","."," ">> \o t \o <<"\n">>
        \o <<"T","u","r","n"," ","2",":">> \o <<"\n">> \o <<"P","l","a","y","e","r"," ","B"," ","d","r","a","w","s"," ","2"," ","c","a","r","d","s",".">> \o <<"\n">>
        \o <<"T","u","r","n"," ","1",":"," ","T","a","p"," ","M","o","u","n","t","a","i","n"," ","f","o","r"," ","R","."," ","P","l","a","y","e","r"," ","A"," ","d","r","a","w","s"," ","a"," ","c","a","r","d",".">> :
          t \in DrawTexts}

\* one invocation on a log of draws
InitDraws == InitFrames(1, 1)

NextDraws ==
  \/ \E log \in DrawLogs : Enter(1, log)
  \/ Step(1)

SpecDraws == InitDraws /\ [][NextDraws]_vars

(***************************************************************************)
(* Transcripts with text before the first turn.                            *)
(***************************************************************************)
\* what stands before the first turn marker: nothing, or lines with mana and
\* draw phrases, kept as events or not
Preambles ==
  { <<>>,
    <<"P","l","a","y","e","r"," ","A"," ","c","a","s","t","s"," ","X",","," ","d","r","a","w","s"," ","a"," ","c","a","r","d","."," ","A","d","d","s"," ","1"," ","m","a","n","a",".">> \o <<"\n">>,
    <<"T","a","p"," ","M","o","u","n","t","a","i","n"," ","f","o","r"," ","R",".">> \o <<"\n">> \o <<"P","l","a","y","e","r"," ","B"," ","d","r","a","w","s"," ","2"," ","c","a","r","d","s",","," ","g","a","i","n","s"," ","2"," ","l","i","f","e">> \o <<"\n">>,
    <<"G","a","m","e"," ","s","t","a","r","t","."," ","P","l","a","y","e","r"," ","A"," ","d","r","a","w","s"," ","7"," ","c","a","r","d","s",".">> \o <<"\n", "\n">> }

\* the turns that follow: none, one, or several with a header on a line of its
\* own
TurnTexts ==
  { <<>>,
    <<"T","u","r","n"," ","1",":"," ","A","d","d","s"," ","2"," ","m","a","n","a","."," ","P","l","a","y","e","r"," ","A"," ","d","r","a","w","s"," ","a"," ","c","a","r","d",".">>,
    <<"T","u","r","n"," ","1",":">> \o <<"\n">> \o <<"P","l","a","y","e","r"," ","A"," ","c","a","s","t","s"," ","Y"," ","(","7",")","."," ","T","a","p"," ","F","o","r","e","s","t"," ","f","o","r"," ","G",".">>,
    <<"T","u","r","n"," ","2",":">> \o <<"\n">> \o <<"P","l","a","y","e","r"," ","B"," ","d","r","a","w","s"," ","2"," ","c","a","r","d","s",".">> \o <<"\n">> \o <<"T","u","r","n"," ","1",":"," ","c","a","s","t","s"," ","Z",","," ","a","d","d","s"," ","1"," ","m","a","n","a",".">>,
    <<"T","U","R","N"," ","3",":"," ","P","l","a","y","e","r"," ","B"," ","d","r","a","w","s"," ","a"," ","c","a","r","d">> \o <<"\n">> \o <<"T","u","r","n"," ","4",":">> \o <<"\n">>,
    <<"T","u","r","n"," ","1",":"," ","A"," ","w","i","n","s"," ","t","h","e"," ","g","a","m","e">> \o <<"\n">> \o <<"T","u","r","n"," ","1",":"," ","d","r","a","w","s"," ","3"," ","c","a","r","d","s","."," ","P","r","o","d","u","c","e","s"," ","2"," ","m","a","n","a",".">> }

PreambleLogs == {p \o t : p \in Preambles, t \in TurnTexts}

\* one invocation on a transcript with or without text before its first turn
InitPreamble == InitFrames(1, 1)

NextPreamble ==
  \/ \E log \in PreambleLogs : Enter(1, log)
  \/ Step(1)

SpecPreamble == InitPreamble /\ [][NextPreamble]_vars

(***************************************************************************)
(* Claims.                                                                 *)
(***************************************************************************)
EmptySummary ==
  [kept_events |-> <<>>, mana_per_turn |-> <<>>, cards_drawn_per_turn |-> <<>>,
   turn_count |-> 0]

\* C1: condense("") does not raise, and what it returns is kept_events = [],
\* mana_per_turn = {}, cards_drawn_per_turn = {} and turn_count = 0.
C1_EmptyLog ==
  \A f \in Frames :
    (pc[f] # "idle" /\ raw_log[f] = <<>>) =>
      /\ pc[f] # "raised"
      /\ pc[f] = "done" => result[f] = EmptySummary

\* condense("") has returned
C1_Witness == \E f \in Frames : pc[f] = "done" /\ raw_log[f] = <<>>

\* the first components of a sequence of pairs
Firsts(pairs) == [k \in 1..Len(pairs) |-> pairs[k][1]]

\* the turn numbers of the markers the Turn Indexer finds, in document order
TurnNumbers(log) == Firsts(_turn_ranges(log))

\* the greatest element of a sequence of numbers, 0 for the empty sequence
Greatest(ns) ==
  IF ns = <<>> THEN 0
  ELSE CHOOSE n \in {ns[k] : k \in 1..Len(ns)} : \A k \in 1..Len(ns) : ns[k] <= n

\* C2: the turn_count condense returns is the greatest turn number among the
\* turn markers of the transcript, and 0 when there is none, whatever the
\* number of spans and the order of the headers.
C2_TurnCountIsMax ==
  \A f \in Frames :
    pc[f] = "done" => result[f].turn_count = Greatest(TurnNumbers(raw_log[f]))

\* a transcript with the headers Turn 3, Turn 1 has returned: the greatest
\* number (3) is neither the number of spans (2) nor the last number seen (1)
C2_Witness ==
  \E f \in Frames :
    /\ pc[f] = "done"
    /\ TurnNumbers(raw_log[f]) = <<3, 1>>
    /\ result[f].turn_count = 3

\* the five kinds of a kept event
EventKinds ==
  {"life_change", "spell_cast_high_cmc", "zone_change_gy_to_bf", "win_condition",
   "spell_cast"}

RECURSIVE Surviving(_, _)
\* the indices, ascending, of the lines among the first n of ls that the Line
\* Classifier does not discard
Surviving(ls, n) ==
  IF n = 0 THEN <<>>
  ELSE Surviving(ls, n - 1) \o (IF _classify_line(ls[n]) # None THEN <<n>> ELSE <<>>)

\* kept holds one event per index of ix, in the order of ix, each of the kind
\* the classifier gives the line and one of the five kinds
KeptFrom(kept, ls, ix) ==
  /\ Len(kept) = Len(ix)
  /\ \A i \in 1..Len(ix) :
       /\ kept[i].type = _classify_line(ls[ix[i]])
       /\ kept[i].type \in EventKinds

\* C3: kept_events is the document-order subsequence of the lines the Line
\* Classifier does not discard, at most one event per line and each of one of
\* the five kinds, and the classification of a line never raises.
C3_KeptSubsequenceNeverRaises ==
  \A f \in Frames :
    /\ ~(pc[f] = "raised" /\ idx[f] <= Len(lines[f]))
    /\ pc[f] \in {"loop", "mana", "cards", "return", "done"} =>
         KeptFrom(kept_events[f], lines[f], Surviving(lines[f], idx[f] - 1))

\* the line the for loop of invocation f is at
CurrentLine(f) == lines[f][idx[f]]

\* the step is an iteration of the for loop of invocation f that did not raise
Iterates(f) == pc[f] = "loop" /\ idx'[f] = idx[f] + 1

\* t is s cut to its first n characters
IsCutOf(t, s, n) ==
  /\ Len(t) = (IF Len(s) < n THEN Len(s) ELSE n)
  /\ \A k \in 1..Len(t) : t[k] = s[k]

\* C4: a step that adds to kept_events adds one event at the end, whose line is
\* the trimmed text of the line the loop is at cut to its first 200 characters,
\* hence never longer than 200 characters; no other step changes an event.
C4_KeptLineTrimmedAndCut ==
  [][\A f \in Frames :
       IF Len(kept_events'[f]) > Len(kept_events[f])
       THEN /\ Iterates(f)
            /\ kept_events'[f] = Append(kept_events[f], kept_events'[f][Len(kept_events'[f])])
            /\ IsCutOf(kept_events'[f][Len(kept_events'[f])].line, strip(CurrentLine(f)), 200)
            /\ Len(kept_events'[f][Len(kept_events'[f])].line) <= 200
       ELSE kept_events'[f] \in {kept_events[f], <<>>}]_vars

\* a call returned whose line had more than 200 characters once trimmed, and
\* the event kept for it has exactly 200
C4_Witness ==
  \E f \in Frames :
    /\ pc[f] = "done"
    /\ Len(lines[f]) = 1
    /\ Len(strip(lines[f][1])) > 200
    /\ Len(result[f].kept_events) = 1
    /\ Len(result[f].kept_events[1].line) = 200

\* C5: any two calls that were given the same transcript returned equal
\* summaries, whatever calls came before or in between.
C5_SameLogSameSummary ==
  \A i, j \in 1..Len(returned) :
    returned[i][1] = returned[j][1] => returned[i][2] = returned[j][2]

\* three calls returned: the first and the third on the same transcript, the
\* second on another, both transcripts with kept events
C5_Witness ==
  /\ Len(returned) >= 3
  /\ returned[1][1] = returned[3][1]
  /\ returned[2][1] # returned[1][1]
  /\ returned[1][2].kept_events # <<>>
  /\ returned[2][2].kept_events # <<>>
  /\ returned[3][2] = returned[1][2]

\* rule 3 on a line: the high-value pattern matches, or a cast is followed by a
\* parenthesised number and the first parenthesised number of the line is 5 or more
HighCmcRule(line) ==
  \/ Search(SPELL_CAST_HIGH_CMC, line)
  \/ Search(CAST_PAREN_NUMBER, line) /\ int(paren_digits(line)) >= 5

\* the keep rules in their fixed order, each with whether it matches the line
Rules(line) ==
  << [kind |-> "life_change", hit |-> Search(LIFE_CHANGE, line)],
     [kind |-> "spell_cast_high_cmc", hit |-> HighCmcRule(line)],
     [kind |-> "zone_change_gy_to_bf", hit |-> Search(ZONE_CHANGE, line)],
     [kind |-> "win_condition", hit |-> Search(WIN_CONDITION, line)],
     [kind |-> "spell_cast", hit |-> Search(CAST_VERB, line)] >>

\* the kind of the first rule that matches, None when none does
FirstHit(rules) ==
  IF \A k \in 1..Len(rules) : ~rules[k].hit THEN None
  ELSE rules[CHOOSE k \in 1..Len(rules) :
               rules[k].hit /\ \A j \in 1..(k - 1) : ~rules[j].hit].kind

\* kept grew by exactly one event of the given kind, or stayed as it was for None
KeptKind(before, after, kind) ==
  IF kind = None THEN after = before
  ELSE /\ Len(after) = Len(before) + 1
       /\ SubSeq(after, 1, Len(before)) = before
       /\ after[Len(after)].type = kind

\* C6: an iteration on a line the noise filter does not ignore keeps an event of
\* the kind of the first rule that matches in the order life_change,
\* spell_cast_high_cmc, zone_change_gy_to_bf, win_condition, spell_cast, and no
\* event when none matches.
C6_FirstMatchingRule ==
  [][\A f \in Frames :
       (Iterates(f) /\ ~_should_ignore(CurrentLine(f))) =>
          KeptKind(kept_events[f], kept_events'[f], FirstHit(Rules(CurrentLine(f))))]_vars

\* a call returned on a line with a cast and a zone change, kept as a zone change
C6_Witness ==
  \E f \in Frames :
    /\ pc[f] = "done"
    /\ Len(lines[f]) = 1
    /\ Len(result[f].kept_events) = 1
    /\ result[f].kept_events[1].type = "zone_change_gy_to_bf"
    /\ Search(CAST_VERB, lines[f][1])

\* the line holds the phrase, in any letter case
Contains(line, phrase) == Search(Lit(phrase), line)

\* the line is discarded by the structure of the log alone
StructuralNoise(line) ==
  \/ strip(line) = <<>>
  \/ Search(IGNORE_BARE_TURN, strip(line))
  \/ Contains(line, <<"p","l","a","y","e","r"," ","p","a","s","s","e","s"," ","p","r","i","o","r","i","t","y">>)
  \/ Contains(line, <<"u","n","t","a","p"," ","s","t","e","p">>)

\* the line matches some keep rule
MatchesSomeRule(line) == FirstHit(Rules(line)) # None

\* the transcript is newline-separated and each of its lines is a bare turn
\* header or one of the three noise sentences
OnlyHeadersAndNoise(log, ls) ==
  /\ \A k \in 1..Len(log) : log[k] \notin {"\r", "\f"}
  /\ \A k \in 1..Len(ls) :
       \/ Search(IGNORE_BARE_TURN, ls[k])
       \/ [j \in 1..Len(strip(ls[k])) |-> Fold(strip(ls[k])[j])]
            \in {<<"p","l","a","y","e","r"," ","p","a","s","s","e","s"," ","p","r","i","o","r","i","t","y",".">>, <<"u","n","t","a","p"," ","s","t","e","p",".">>, <<"d","r","a","w"," ","s","t","e","p",".">>}

\* the numbers of the bare turn headers among the lines ls
HeaderNumbers(ls) ==
  Firsts(SelectSeq([k \in 1..Len(ls) |->
                     <<int(SelectSeq(ls[k], LAMBDA ch : ch \in Digits)),
                       Search(IGNORE_BARE_TURN, ls[k])>>],
                   LAMBDA p : p[2]))

\* C7: an iteration on an empty line, a bare turn header or a line with "player
\* passes priority" or "untap step" keeps no event, whatever keep pattern the
\* line matches; and a call on a transcript of bare headers and noise sentences
\* returns no kept event and the highest header number as turn_count.
C7_NoiseBeforeKeepRules ==
  [][\A f \in Frames :
       /\ (Iterates(f) /\ StructuralNoise(CurrentLine(f))) =>
            kept_events'[f] = kept_events[f]
       /\ (pc[f] = "return" /\ pc'[f] = "done" /\ OnlyHeadersAndNoise(raw_log[f], lines[f])) =>
            /\ result'[f].kept_events = <<>>
            /\ result'[f].turn_count = Greatest(HeaderNumbers(lines[f]))]_vars

\* a call returned without a kept event on a line that has "player passes
\* priority" and matches a keep rule
C7_Witness ==
  \E f \in Frames :
    /\ pc[f] = "done"
    /\ Len(lines[f]) = 1
    /\ result[f].kept_events = <<>>
    /\ Contains(lines[f][1], <<"p","l","a","y","e","r"," ","p","a","s","s","e","s"," ","p","r","i","o","r","i","t","y">>)
    /\ MatchesSomeRule(lines[f][1])

\* the line is a draw step line that tells of an above-normal draw
ExtraDrawStep(line) ==
  Search(IGNORE_DRAW_STEP, strip(line)) /\ Search(EXTRA_DRAW_PATTERN, strip(line))

\* the line matches a noise pattern that _should_ignore tries before "draw step"
EarlierNoise(line) ==
  Search(IGNORE_PRIORITY, strip(line)) \/ Search(IGNORE_UNTAP, strip(line))

\* C8 as stated: every draw step line that tells of an above-normal draw is not
\* ignored and goes on to the keep rules, whatever other noise phrase it holds.
C8_ExtraDrawWhateverNoise ==
  [][\A f \in Frames :
       (Iterates(f) /\ ExtraDrawStep(CurrentLine(f))) =>
          /\ ~_should_ignore(CurrentLine(f))
          /\ KeptKind(kept_events[f], kept_events'[f], FirstHit(Rules(CurrentLine(f))))]_vars

\* C8 amended: a draw step line that tells of an above-normal draw and matches
\* neither "player passes priority" nor "untap step" is not ignored and goes on
\* to the keep rules; one that matches either of the two is ignored.
C8_ExtraDrawUnlessEarlierNoise ==
  [][\A f \in Frames :
       (Iterates(f) /\ ExtraDrawStep(CurrentLine(f))) =>
          IF EarlierNoise(CurrentLine(f))
          THEN _should_ignore(CurrentLine(f)) /\ kept_events'[f] = kept_events[f]
          ELSE /\ ~_should_ignore(CurrentLine(f))
               /\ KeptKind(kept_events[f], kept_events'[f],
                           FirstHit(Rules(CurrentLine(f))))]_vars

\* a call returned with a kept event on a draw step line that tells of an
\* above-normal draw and has no earlier noise phrase
C8_Witness ==
  \E f \in Frames :
    /\ pc[f] = "done"
    /\ Len(lines[f]) = 1
    /\ Len(result[f].kept_events) = 1
    /\ ExtraDrawStep(lines[f][1])
    /\ ~EarlierNoise(lines[f][1])

\* the life-change, high-value cast and zone-change rules all reject the line
NoEarlierRule(line) ==
  /\ ~Search(LIFE_CHANGE, line)
  /\ ~HighCmcRule(line)
  /\ ~Search(ZONE_CHANGE, line)

\* the line announces a win, "game over" or "winner"
AnnouncesWin(line) ==
  \/ Contains(line, <<"w","i","n","s"," ","t","h","e"," ","g","a","m","e">>)
  \/ Contains(line, <<"g","a","m","e"," ","o","v","e","r">>)
  \/ Contains(line, <<"w","i","n","n","e","r">>)

\* the line announces a loss that ends the game
AnnouncesLoss(line) == Contains(line, <<"l","o","s","e","s"," ","t","h","e"," ","g","a","m","e">>)

\* C9 as stated: an iteration on a line that is not ignored, that the life,
\* high-value cast and zone rules reject and that announces a win, a loss that
\* ends the game, "game over" or "winner" keeps a win_condition event.
C9_WinOrLossIsWinCondition ==
  [][\A f \in Frames :
       (/\ Iterates(f)
        /\ ~_should_ignore(CurrentLine(f))
        /\ NoEarlierRule(CurrentLine(f))
        /\ AnnouncesWin(CurrentLine(f)) \/ AnnouncesLoss(CurrentLine(f))) =>
          KeptKind(kept_events[f], kept_events'[f], "win_condition")]_vars

\* C9 amended: such a line that announces a win, "game over" or "winner" keeps
\* a win_condition event; one that announces a loss and matches no win pattern
\* keeps no win_condition event: a spell_cast event if it has a cast verb and
\* none otherwise.
C9_WinIsWinCondition ==
  [][\A f \in Frames :
       (/\ Iterates(f)
        /\ ~_should_ignore(CurrentLine(f))
        /\ NoEarlierRule(CurrentLine(f))) =>
          /\ AnnouncesWin(CurrentLine(f)) =>
               KeptKind(kept_events[f], kept_events'[f], "win_condition")
          /\ (AnnouncesLoss(CurrentLine(f)) /\ ~Search(WIN_CONDITION, CurrentLine(f))) =>
               KeptKind(kept_events[f], kept_events'[f],
                        IF Search(CAST_VERB, CurrentLine(f)) THEN "spell_cast" ELSE None)]_vars

\* a call returned on a log of several lines whose last line says "Game Over."
\* and "wins the game", and the last event it kept is a win_condition
C9_Witness ==
  \E f \in Frames :
    /\ pc[f] = "done"
    /\ Len(lines[f]) >= 2
    /\ Contains(lines[f][Len(lines[f])], <<"g","a","m","e"," ","o","v","e","r">>)
    /\ Contains(lines[f][Len(lines[f])], <<"w","i","n","s"," ","t","h","e"," ","g","a","m","e">>)
    /\ result[f].kept_events # <<>>
    /\ result[f].kept_events[Len(result[f].kept_events)].type = "win_condition"

\* what condense returns on each transcript when it runs alone
Alone == [log \in ParLogs |-> Condense(log)]

\* C10: every invocation that returned, whatever the other invocations did in
\* between its steps, returned the summary condense gives its transcript alone.
C10_SameAsAlone ==
  \A f \in Frames : pc[f] = "done" => result[f] = Alone[raw_log[f]]

\* an invocation returned a summary with kept events while another one, on a
\* different transcript, was inside its loop with an event already kept
C10_Witness ==
  \E f, g \in Frames :
    /\ pc[f] = "done"
    /\ result[f].kept_events # <<>>
    /\ pc[g] = "loop"
    /\ kept_events[g] # <<>>
    /\ raw_log[f] # raw_log[g]

(***************************************************************************)
(* C11.  POST /analyze answers 503 exactly when GEMINI_API_KEY is not set, *)
(* and then without a call of Gemini; a Gemini error, an empty reply,      *)
(* unparsable JSON, a result missing a key or a bracket that is no integer *)
(* in 1..5 are answered 502; 200 is answered only when every result of the *)
(* reply is valid.                                                         *)
(***************************************************************************)
\* the environment holds a key
KeyIsSet == api_key.set /\ api_key.value # <<>>

\* the JSON documents in the text of the reply
Documents(text) == {text[k].v : k \in {j \in 1..Len(text) : text[j].k \in {"doc", "inline"}}}

\* the results Gemini sent: the entries of a list, or of the list under
\* "results"
SentResults(d) ==
  IF d.t = "list" THEN {d.v[k] : k \in 1..Len(d.v)}
  ELSE IF d.t = "dict" /\ "results" \in DOMAIN d.v /\ d.v["results"].t = "list"
  THEN {d.v["results"].v[k] : k \in 1..Len(d.v["results"].v)}
  ELSE {}

\* a result as the system prompt defines it: the four keys, and an integer
\* 1..5 as bracket
MissesKey(r) ==
  r.t = "dict" /\ {"deck_name", "bracket", "confidence", "reasoning"} \ DOMAIN r.v # {}
BadBracket(r) ==
  /\ r.t = "dict" /\ "bracket" \in DOMAIN r.v
  /\ ~(r.v["bracket"].t = "int" /\ r.v["bracket"].v \in 1..5)
ValidResult(r) == r.t = "dict" /\ ~MissesKey(r) /\ ~BadBracket(r)

\* the failures of the judge the claim lists, for a request that reached
\* Gemini
GeminiError == response.error # NoException
EmptyReply == response.error = NoException /\ response.text = <<>>
UnparsableJson == response.text # <<>> /\ Documents(response.text) = {}
InvalidResult ==
  \E d \in Documents(response.text) : \E r \in SentResults(d) : MissesKey(r) \/ BadBracket(r)

C11_StatusByFailure ==
  api_pc = "answered" =>
    /\ status = 503 <=> ~KeyIsSet
    /\ status = 503 => calls = 0
    /\ (calls = 1 /\ (GeminiError \/ EmptyReply \/ UnparsableJson \/ InvalidResult))
         => status = 502
    /\ status = 200 =>
         \A d \in Documents(response.text) : \A r \in SentResults(d) : ValidResult(r)

(***************************************************************************)
(* C12.  A line that is neither ignored nor a life change is classified    *)
(* spell_cast_high_cmc exactly when it carries a 'CMC N' annotation or a   *)
(* parenthesized number of value 5 or more; a cast line whose annotated    *)
(* value is below 5 is never spell_cast_high_cmc and is a spell_cast when  *)
(* it reports neither a zone change nor a win.                             *)
(***************************************************************************)
\* line[i..j] is a run of decimal digits that no digit precedes or follows
DigitRun(line, i, j) ==
  /\ i <= j
  /\ \A k \in i..j : line[k] \in Digits
  /\ (i > 1 => line[i - 1] \notin Digits)
  /\ (j < Len(line) => line[j + 1] \notin Digits)

\* line[i..j] is the N of an annotation 'CMC N'
IsCmcNumber(line, i, j) ==
  /\ DigitRun(line, i, j)
  /\ \E c \in 1..(i - 3) :
       /\ [k \in 1..3 |-> Fold(line[c + k - 1])] = <<"c","m","c">>
       /\ \A k \in (c + 3)..(i - 1) : line[k] \in Whitespace

\* line[i..j] is a number between parentheses, on a line that says "cast"
\* before it
IsParenNumber(line, i, j) ==
  /\ DigitRun(line, i, j)
  /\ i > 1 /\ line[i - 1] = "("
  /\ j < Len(line) /\ line[j + 1] = ")"
  /\ Contains(SubSeq(line, 1, i - 2), <<"c","a","s","t">>)

\* the mana values the line is annotated with
ManaValues(line) ==
  {int(SubSeq(line, p[1], p[2])) :
     p \in {q \in (1..Len(line)) \X (1..Len(line)) :
              IsCmcNumber(line, q[1], q[2]) \/ IsParenNumber(line, q[1], q[2])}}

C12_HighExactlyFromFive ==
  [][\A f \in Frames :
       (/\ Iterates(f)
        /\ ~_should_ignore(CurrentLine(f))
        /\ ~Search(LIFE_CHANGE, CurrentLine(f))) =>
          /\ KeptKind(kept_events[f], kept_events'[f], "spell_cast_high_cmc")
               <=> (\E n \in ManaValues(CurrentLine(f)) : n >= 5)
          /\ (/\ Search(CAST_VERB, CurrentLine(f))
              /\ ManaValues(CurrentLine(f)) # {}
              /\ \A n \in ManaValues(CurrentLine(f)) : n < 5
              /\ ~Search(ZONE_CHANGE, CurrentLine(f))
              /\ ~Search(WIN_CONDITION, CurrentLine(f))) =>
               KeptKind(kept_events[f], kept_events'[f], "spell_cast")]_vars

(***************************************************************************)
(* C13.  The turn spans partition the transcript from the first marker to  *)
(* its end, and the mana_events recorded for a span counts the mana        *)
(* phrases and the 'tap ... for' phrases of that span's own text.          *)
(***************************************************************************)
\* the start offset of span i of invocation f, counted from 0
SpanStart(f, i) == turn_ranges[f][i][2]

\* the offset span i ends before: the start of the next span, or the length of
\* the transcript
SpanEnd(f, i) ==
  IF i < Len(turn_ranges[f]) THEN SpanStart(f, i + 1) ELSE Len(raw_log[f])

\* the text of span i
SpanText(f, i) == SubSeq(raw_log[f], SpanStart(f, i) + 1, SpanEnd(f, i))

\* span i is the last one headed by its turn number
LastOfItsTurn(f, i) ==
  \A j \in (i + 1)..Len(turn_ranges[f]) : turn_ranges[f][j][1] # turn_ranges[f][i][1]

\* the mana phrases and the tap-for phrases of a text
ManaPhrases(text) ==
  Len(FindIter(MANA_PRODUCED, text, FALSE)) + Len(FindIter(TAP_FOR, text, FALSE))

\* C13: when the mana aggregator has run, the span starts increase strictly,
\* every offset from the first start to the end of the transcript lies in
\* exactly one span, and the entry of every turn number is the phrase count of
\* the text of the span that wrote it.
C13_SpansPartitionAndOwnMana ==
  [][\A f \in Frames :
       (pc[f] = "mana" /\ pc'[f] = "cards") =>
          /\ \A i, j \in 1..Len(turn_ranges[f]) :
               i < j => SpanStart(f, i) < SpanStart(f, j)
          /\ \A i \in 1..Len(turn_ranges[f]) : SpanStart(f, i) < SpanEnd(f, i)
          /\ turn_ranges[f] # <<>> =>
               \A o \in SpanStart(f, 1)..(Len(raw_log[f]) - 1) :
                  \E i \in 1..Len(turn_ranges[f]) :
                     /\ SpanStart(f, i) <= o /\ o < SpanEnd(f, i)
                     /\ \A j \in 1..Len(turn_ranges[f]) :
                          (SpanStart(f, j) <= o /\ o < SpanEnd(f, j)) => j = i
          /\ \A i \in 1..Len(turn_ranges[f]) :
               LastOfItsTurn(f, i) =>
                 mana_per_turn'[f][turn_ranges[f][i][1]].mana_events
                   = ManaPhrases(SpanText(f, i))]_vars

\* a call returned on a transcript of several spans, one with mana phrases and
\* a later one without
C13_Witness ==
  \E f \in Frames :
    /\ pc[f] = "done"
    /\ \E i, j \in 1..Len(turn_ranges[f]) :
         /\ i < j
         /\ turn_ranges[f][i][1] # turn_ranges[f][j][1]
         /\ result[f].mana_per_turn[turn_ranges[f][i][1]].mana_events >= 2
         /\ result[f].mana_per_turn[turn_ranges[f][j][1]].mana_events = 0
         /\ LastOfItsTurn(f, i) /\ LastOfItsTurn(f, j)

(***************************************************************************)
(* C14.  The draw count of a span is the sum of its explicit numeric draws *)
(* plus one per singular draw, and no draw phrase is counted by both.      *)
(***************************************************************************)
\* the text reads word at position p, in any letter case
ReadsAt(text, p, word) ==
  /\ p + Len(word) - 1 <= Len(text)
  /\ [k \in 1..Len(word) |-> Fold(text[p + k - 1])] = word

RECURSIVE PastSpaces(_, _)
\* the first position from p on that holds no whitespace
PastSpaces(text, p) ==
  IF p <= Len(text) /\ text[p] \in Whitespace THEN PastSpaces(text, p + 1) ELSE p

RECURSIVE PastDigits(_, _)
\* the first position from p on that holds no digit
PastDigits(text, p) ==
  IF p <= Len(text) /\ text[p] \in Digits THEN PastDigits(text, p + 1) ELSE p

\* the position after "draw" or "draws" read at p
PastVerb(text, p) == IF ReadsAt(text, p + 4, <<"s">>) THEN p + 5 ELSE p + 4

\* the position of what is drawn: after the verb at p and the whitespace that
\* follows it; 0 when no whitespace follows
ObjectOf(text, p) ==
  IF ReadsAt(text, p, <<"d","r","a","w">>) /\ PastSpaces(text, PastVerb(text, p)) > PastVerb(text, p)
  THEN PastSpaces(text, PastVerb(text, p)) ELSE 0

\* a numeric draw is read at p: 'draws N card(s)'
NumericDrawAt(text, p) ==
  /\ ObjectOf(text, p) > 0
  /\ PastDigits(text, ObjectOf(text, p)) > ObjectOf(text, p)
  /\ PastSpaces(text, PastDigits(text, ObjectOf(text, p))) > PastDigits(text, ObjectOf(text, p))
  /\ ReadsAt(text, PastSpaces(text, PastDigits(text, ObjectOf(text, p))), <<"c","a","r","d">>)

\* the N of the numeric draw read at p
DrawnAt(text, p) ==
  int(SubSeq(text, ObjectOf(text, p), PastDigits(text, ObjectOf(text, p)) - 1))

\* 'card' not followed by 's' is read at q
SingleCardAt(text, q) == ReadsAt(text, q, <<"c","a","r","d">>) /\ ~ReadsAt(text, q + 4, <<"s">>)

\* a singular draw is read at p: 'draws a card' or 'draws card'
SingularDrawAt(text, p) ==
  /\ ObjectOf(text, p) > 0
  /\ \/ SingleCardAt(text, ObjectOf(text, p))
     \/ /\ ReadsAt(text, ObjectOf(text, p), <<"a">>)
        /\ PastSpaces(text, ObjectOf(text, p) + 1) > ObjectOf(text, p) + 1
        /\ SingleCardAt(text, PastSpaces(text, ObjectOf(text, p) + 1))

RECURSIVE DrawSum(_, _)
\* what the draw phrases read from position p on add up to
DrawSum(text, p) ==
  IF p > Len(text) THEN 0
  ELSE (IF NumericDrawAt(text, p) THEN DrawnAt(text, p) ELSE 0)
       + (IF SingularDrawAt(text, p) THEN 1 ELSE 0)
       + DrawSum(text, p + 1)

\* C14: when the draw aggregator has run, the entry of every turn number is the
\* sum over the draw phrases of the span that wrote it, N for 'draws N card(s)'
\* and 1 for 'draws a card' or 'draws card', and no phrase is of both forms.
C14_DrawsCountedOnce ==
  [][\A f \in Frames :
       (pc[f] = "cards" /\ pc'[f] = "return") =>
          \A i \in 1..Len(turn_ranges[f]) :
             /\ \A p \in 1..Len(SpanText(f, i)) :
                  ~(NumericDrawAt(SpanText(f, i), p) /\ SingularDrawAt(SpanText(f, i), p))
             /\ LastOfItsTurn(f, i) =>
                  cards_drawn_per_turn'[f][turn_ranges[f][i][1]] = DrawSum(SpanText(f, i), 1)]_vars

\* a call returned on a turn whose text holds 'draws 1 card' and 'draws a card',
\* with the count 2
C14_Witness ==
  \E f \in Frames :
    /\ pc[f] = "done"
    /\ Contains(raw_log[f], <<"d","r","a","w","s"," ","1"," ","c","a","r","d","."," ">>)
    /\ Contains(raw_log[f], <<"d","r","a","w","s"," ","a"," ","c","a","r","d">>)
    /\ Len(turn_ranges[f]) = 1
    /\ result[f].cards_drawn_per_turn[1] = 2

(***************************************************************************)
(* C15.  Where a turn number heads several spans, both mappings hold the   *)
(* value of the last of these spans alone; the entries of the other turn   *)
(* numbers are those of their own spans.                                   *)
(***************************************************************************)
\* the last span headed by turn number n
LastSpan(f, n) ==
  CHOOSE i \in 1..Len(turn_ranges[f]) : turn_ranges[f][i][1] = n /\ LastOfItsTurn(f, i)

\* the turn numbers that head a span
Headed(f) == {turn_ranges[f][i][1] : i \in 1..Len(turn_ranges[f])}

\* C15: the summary returned holds, for every turn number that heads a span,
\* the mana events and the draws of the text of the last span it heads, whatever
\* the earlier spans of that number and the spans of other numbers hold.
C15_LastSpanWins ==
  [][\A f \in Frames :
       (pc[f] = "return" /\ pc'[f] = "done") =>
          \A n \in Headed(f) :
             /\ result'[f].mana_per_turn[n] = mana_events(SpanText(f, LastSpan(f, n)))
             /\ result'[f].cards_drawn_per_turn[n] = cards_drawn(SpanText(f, LastSpan(f, n)))]_vars

\* a call returned on a transcript where turn 1 heads two spans with different
\* mana events and different draws, both positive, and turn 2 a span between them
C15_Witness ==
  \E f \in Frames :
    /\ pc[f] = "done"
    /\ Len(turn_ranges[f]) = 3
    /\ turn_ranges[f][1][1] = 1 /\ turn_ranges[f][2][1] = 2 /\ turn_ranges[f][3][1] = 1
    /\ mana_events(SpanText(f, 1)).mana_events > result[f].mana_per_turn[1].mana_events
    /\ result[f].mana_per_turn[1].mana_events > 0
    /\ cards_drawn(SpanText(f, 1)) > result[f].cards_drawn_per_turn[1]
    /\ result[f].cards_drawn_per_turn[1] > 0
    /\ result[f].cards_drawn_per_turn[2] = 2

(***************************************************************************)
(* C16.  In every summary the two mappings have the same keys, the turn    *)
(* numbers found; every value is a count; turn_count is 0 without keys and *)
(* the greatest key otherwise.                                             *)
(***************************************************************************)
\* C16: a call that returned has given both mappings the turn numbers of the
\* markers as keys and natural numbers as values, and turn_count is 0 when
\* there is no marker and otherwise the greatest key of both mappings.
C16_SummaryConsistent ==
  \A f \in Frames :
    pc[f] = "done" =>
      /\ DOMAIN result[f].mana_per_turn = Headed(f)
      /\ DOMAIN result[f].cards_drawn_per_turn = Headed(f)
      /\ \A n \in Headed(f) :
           /\ result[f].mana_per_turn[n].mana_events \in Nat
           /\ result[f].cards_drawn_per_turn[n] \in Nat
      /\ Headed(f) = {} => result[f].turn_count = 0
      /\ Headed(f) # {} =>
           /\ result[f].turn_count \in DOMAIN result[f].mana_per_turn
           /\ result[f].turn_count \in DOMAIN result[f].cards_drawn_per_turn
           /\ \A n \in Headed(f) : n <= result[f].turn_count

\* a call returned on a transcript with several turn numbers out of order, one
\* of them without draws and one with
C16_Witness ==
  \E f \in Frames :
    /\ pc[f] = "done"
    /\ Len(turn_ranges[f]) >= 2
    /\ turn_ranges[f][1][1] > turn_ranges[f][2][1]
    /\ \E a, b \in DOMAIN result[f].cards_drawn_per_turn :
         /\ result[f].cards_drawn_per_turn[a] = 0
         /\ result[f].cards_drawn_per_turn[b] > 0

(***************************************************************************)
(* C17.  The text before the first turn marker belongs to no span: its     *)
(* phrases add to no entry of the two mappings, while its lines are        *)
(* classified like all others; and kept_events depends on the lines alone, *)
(* not on turn markers elsewhere in the transcript.                        *)
(***************************************************************************)
\* a turn marker is read at position p of the transcript: 'Turn', whitespace and
\* a digit at the start of a line
MarkerAt(log, p) ==
  /\ p = 1 \/ log[p - 1] = "\n"
  /\ ReadsAt(log, p, <<"t","u","r","n">>)
  /\ PastSpaces(log, p + 4) > p + 4
  /\ PastSpaces(log, p + 4) <= Len(log)
  /\ log[PastSpaces(log, p + 4)] \in Digits

\* the length of the text before the first turn marker
PreambleLen(f) ==
  IF \A p \in 1..Len(raw_log[f]) : ~MarkerAt(raw_log[f], p) THEN Len(raw_log[f])
  ELSE (CHOOSE p \in 1..Len(raw_log[f]) :
          MarkerAt(raw_log[f], p) /\ \A q \in 1..(p - 1) : ~MarkerAt(raw_log[f], q)) - 1

\* the transcript without the text before its first marker
FromFirstMarker(f) == SubSeq(raw_log[f], PreambleLen(f) + 1, Len(raw_log[f]))

\* the events kept from the lines ls
EventsOf(ls) == kept_loop(ls, 1, <<>>)

\* the lines ls with a line that is a turn marker put in after the first k
WithMarkerAfter(ls, k) == SubSeq(ls, 1, k) \o <<<<"T","u","r","n"," ","9",":">>>> \o SubSeq(ls, k + 1, Len(ls))

\* the lines ls without those that are a turn marker and nothing else
WithoutMarkerLines(ls) == SelectSeq(ls, LAMBDA l : ~Search(IGNORE_BARE_TURN, l))

\* C17: the summary returned has the mappings of the transcript cut to start
\* at its first marker and, as its first kept events, those of the lines before
\* that marker; its kept events are those of the same lines with a marker line
\* put in anywhere, and with the marker lines taken out.
C17_PreambleInNoSpan ==
  [][\A f \in Frames :
       (pc[f] = "return" /\ pc'[f] = "done") =>
          /\ result'[f].mana_per_turn = _mana_per_turn(FromFirstMarker(f))
          /\ result'[f].cards_drawn_per_turn = _cards_drawn_per_turn(FromFirstMarker(f))
          /\ SubSeq(result'[f].kept_events, 1,
                    Len(EventsOf(splitlines(SubSeq(raw_log[f], 1, PreambleLen(f))))))
               = EventsOf(splitlines(SubSeq(raw_log[f], 1, PreambleLen(f))))
          /\ \A k \in 0..Len(lines[f]) :
               EventsOf(WithMarkerAfter(lines[f], k)) = result'[f].kept_events
          /\ EventsOf(WithoutMarkerLines(lines[f])) = result'[f].kept_events]_vars

\* a call returned on a transcript whose first line, before the first marker,
\* holds a draw and a mana phrase and is kept as an event, and that has a line
\* that is a marker and nothing else
C17_Witness ==
  \E f \in Frames :
    /\ pc[f] = "done"
    /\ turn_ranges[f] # <<>>
    /\ PreambleLen(f) > 0
    /\ Contains(SubSeq(raw_log[f], 1, PreambleLen(f)), <<"d","r","a","w","s"," ","a"," ","c","a","r","d">>)
    /\ Contains(SubSeq(raw_log[f], 1, PreambleLen(f)), <<"a","d","d","s"," ","1"," ","m","a","n","a">>)
    /\ result[f].kept_events # <<>>
    /\ result[f].kept_events[1].line = lines[f][1]
    /\ WithoutMarkerLines(lines[f]) # lines[f]

====
